---------------------------- MODULE Spec2Model ----------------------------
(***************************************************************************)
(* The webcash ledger server (src/server.cc, src/server.h) as a state      *)
(* machine: the PostgreSQL tables it keeps, the cached atomic counters of  *)
(* WebcashEconomy, and the callback chains of /api/v1/replace and          *)
(* /api/v1/mining_report, one action per database round trip.              *)
(*                                                                         *)
(* Each request runs in its own database transaction (drogon               *)
(* newTransaction(), i.e. BEGIN at PostgreSQL's default READ COMMITTED     *)
(* level): every statement sees the rows committed when it executes plus   *)
(* the transaction's own writes; an INSERT that meets an uncommitted row   *)
(* with the same unique key, or a DELETE that meets a row another          *)
(* transaction is deleting, waits for that transaction to finish.          *)
(*                                                                         *)
(* Units.  Amounts are counted in units of 2.5*10^11 e-satoshi so that     *)
(* they fit TLC's integers (k_initial_mining_amount is 80 units,   *)
(* k_initial_subsidy_amount 4 units); the int64 of Amount is kept as a     *)
(* two's-complement integer of range -(AmountMax+1) .. AmountMax.  Time is *)
(* in seconds.  aggregate_work is counted in units of 2^20.                *)
(***************************************************************************)
EXTENDS Integers, Sequences, FiniteSets, TLC

\* ------------------------------------------------------------------ bounds
MaxRequests == 2        \* requests issued in one run
MaxTicks    == 2        \* how often the clock advances by TickStep between requests
AmountMax   == 127      \* largest value of the (narrowed) signed Amount integer
MaxReaders  == 1        \* calls of getStats made by other threads in one run
MaxMantissa  == 12      \* leading part of the amounts that are formatted
MaxCalls     == 2       \* calls of the wallet by each of its threads
MaxSolutions == 2       \* solutions the mining threads find in one run
MaxFetches   == 2       \* changes of the server's settings in one run
MaxPreimages == 2       \* preimages a mining thread builds in one run

\* ------------------------------------------------------- program constants
k_initial_mining_amount  == 80       \* 20000000000000 e-satoshi
k_initial_subsidy_amount == 4        \*  1000000000000 e-satoshi
k_reports_per_epoch      == 525000
k_target_interval        == 10       \* absl::Seconds(10)
k_reports_per_interval   == 128
k_look_back_window       == 128
num_workers              == 2        \* connections of the pool (get_num_workers())
InitialDifficulty        == 28       \* std::atomic<unsigned> difficulty = 28
DoSFloor                 == 25       \* if (state->bits < 25)
MaxCommittedDifficulty   == 255      \* if (state->difficulty > 255)
TimestampWindow          == 7200     \* absl::Hours(2)
MaxEpoch                 == 63       \* (epoch > 63) ? Amount{0} : ...
maxdifficulty            == 80       \* ABSL_FLAG(unsigned, maxdifficulty, 80, ...)

\* seconds the clock advances in one tick: the look-back span of report 128
TickStep == (k_look_back_window - 1) * k_target_interval

Req    == 1..MaxRequests
Hashes == 1..6          \* public hashes SHA256(secret) of the secrets in play

VARIABLES
    \* committed rows of the database
    UnspentOutputs,       \* set of [hash, amount]               (hash UNIQUE)
    SpentHashes,          \* set of hashes                       (hash UNIQUE)
    Replacements,         \* set of [id, received]
    ReplacementInputs,    \* set of [replacement_id, hash, amount]
    ReplacementOutputs,   \* set of [replacement_id, hash, amount]
    MiningReports,        \* set of [id, received, preimage, difficulty,
                          \*         next_difficulty, aggregate_work]
    hidden,               \* rows of the loaded database that no request of the run
                          \* names: [reports, replacements, unspent]
    mr_seq, rp_seq,       \* BIGSERIAL sequences of MiningReports / Replacements
    \* WebcashEconomy (cached)
    num_reports, num_replace, num_unspent, difficulty, genesis,
    \* the clock read by absl::Now()
    now, ticks,
    \* per request
    pc,                   \* the callback the request waits for
    msg,                  \* the request as received
    st,                   \* ReplacementState / MiningReportState
    tx,                   \* the uncommitted writes of the request's transaction
    resp                  \* the response handed to callback()

VARIABLES
    \* per call of WebcashEconomy::getStats on another thread (/stats, /target)
    gs                    \* [pc, num_reports, difficulty]: the loop position and
                          \* the two fields of WebcashStats read so far

dbvars    == <<UnspentOutputs, SpentHashes, Replacements, ReplacementInputs,
               ReplacementOutputs, MiningReports, hidden>>
seqvars   == <<mr_seq, rp_seq>>
cachevars == <<num_reports, num_replace, num_unspent, difficulty, genesis>>
clockvars == <<now, ticks>>
vars      == <<dbvars, seqvars, cachevars, clockvars, pc, msg, st, tx, resp>>

VARIABLES
    \* the wallet (src/wallet.cc)
    recovery_log,         \* lines of <walletfile>.bak: set of [kind, secret, amount]
    warned,               \* secrets of the WARNING lines on std::cerr: no recovery file
    secret,               \* table 'secret': set of [id, secret, mine, sweep]
    output,               \* table 'output': set of [id, hash, secret_id, amount, spent]
    wpc,                  \* the statement Wallet::Insert has reached
    wins,                 \* the locals of the running Wallet::Insert
    changes,              \* change secrets drawn from the random generator so far
    \* the miner (src/webminer.cc)
    g_solutions,          \* std::deque<Solution>: sequence of [id, bits, webcash]
    g_difficulty,         \* std::atomic<unsigned>
    g_shutdown,           \* std::atomic<bool>
    max_difficulty,       \* FLAGS_maxdifficulty
    mpc,                  \* per mining thread: its place in mining_thread_func
    search,               \* per mining thread: the keep secret of its search
    mined,                \* solutions found so far (they are numbered in this order)
    upc,                  \* the place of update_thread_func
    soln,                 \* the solution update_thread_func holds
    fetch_settings,       \* its local flag
    settings_due,         \* g_next_settings_fetch has been set to absl::Now()
    orphan_log,           \* solutions written to FLAGS_orphanlog
    webcash_log,          \* secrets written to FLAGS_webcashlog
    \* the server as the miner and the wallet meet it
    srv,                  \* [reports, unspent, difficulty]
    \* what has happened to each solution so far
    posted,               \* ids of the solutions POSTed at least once
    post_result,          \* auto r = cli.Post(...): "error" or the status
    accepted              \* solutions whose POST came back with status 200

\* the Wallet object with several threads calling it
VARIABLES
    m_mut,                \* std::mutex m_mut: 0, or the thread that holds it
    wt,                   \* per calling thread: [op, pc, calls]
    terms                 \* rows of table 'terms' ('body' is UNIQUE)

\* an Amount on its way through to_string and Amount::parse
VARIABLES
    amt,                  \* Amount::i64
    str,                  \* to_string(amt): a sequence of characters, <<>> before
    parsed                \* [called, ok, i64]: what Amount::parse(str) returned and left

\* one /api/v1/health_check request next to the other requests
VARIABLES
    hc                    \* [pc, arg, unspent, spent, status, before]: HealthCheckState,
                          \* the answer, and the committed rows of arg at receipt

\* the settings shared by update_thread_func and a mining thread (with
\* g_difficulty above)
VARIABLES
    g_mining_amount,      \* std::atomic<Amount>
    g_subsidy_amount,     \* std::atomic<Amount>
    server_settings,      \* how far the settings the server hands out have moved
    fetched,              \* update thread: [pc, settings] of its last fetch
    build                 \* mining thread: [pc, mining_amount, keep, subsidy,
                          \*                 difficulty, preimages]

\* a hash on its way through the two difficulty functions of the miner
VARIABLES
    hash,                 \* uint256 as its 32 bytes, first byte first
    apparent,             \* get_apparent_difficulty(hash), -1 before the call
    pow                   \* [difficulty, ok]: check_proof_of_work, difficulty -1 before

walletvars == <<recovery_log, warned, secret, output, wpc, wins, changes>>
minervars  == <<g_solutions, g_difficulty, g_shutdown, max_difficulty, mpc, search,
                mined, upc, soln, fetch_settings, settings_due, orphan_log,
                webcash_log>>
peervars   == <<srv, posted, post_result, accepted>>
clientvars == <<walletvars, minervars, peervars>>
lockvars   == <<m_mut, wt, terms>>
amountvars == <<amt, str, parsed>>
powvars    == <<hash, apparent, pow>>
settingsvars == <<g_mining_amount, g_subsidy_amount, server_settings, fetched,
                  build>>
unitvars   == <<lockvars, amountvars, powvars, hc, settingsvars>>
allvars    == <<vars, gs, clientvars, unitvars>>

\* ---------------------------------------------------------------- helpers
Max(a, b) == IF a >= b THEN a ELSE b

RECURSIVE SumAmounts(_)
SumAmounts(S) ==
    IF S = {} THEN 0
    ELSE LET x == CHOOSE y \in S : TRUE IN x.amount + SumAmounts(S \ {x})

HashesOf(S) == {x.hash : x \in S}

\* x >> n on a non-negative integer
RECURSIVE ShiftRight(_, _)
ShiftRight(x, n) == IF n = 0 \/ x = 0 THEN x ELSE ShiftRight(x \div 2, n - 1)

\* faulty variant: an addition that never leaves the integers, so that the
\* running sum cannot turn negative
AmountAdd_Unbounded(a, b) == a + b

\* int64 addition at the narrowed width: two's-complement wrap-around
AmountModulus == 2 * (AmountMax + 1)
WrapAmount(x) == ((x + AmountMax + 1) % AmountModulus) - (AmountMax + 1)
AmountAdd(a, b) == WrapAmount(a + b)

\* ------------------------------------------------------ requests in play
\* An entry of a JSON array of claim codes: ok = FALSE is a string that
\* SecretWebcash::parse rejects; hash is SHA256 of the secret's hex text.
WC(h, a) == [ok |-> TRUE, hash |-> h, amount |-> a]
BadWC    == [ok |-> FALSE, hash |-> 0, amount |-> 0]
Arr(items) == [kind |-> "array", items |-> items]
NoMember   == [kind |-> "missing", items |-> <<>>]

ReplaceMsg(l, i, o) ==
    [kind |-> "replace", legalese |-> l, webcashes |-> i, new_webcashes |-> o]

ReplaceRequests == {
    ReplaceMsg(TRUE,  Arr(<<WC(1, 76)>>), Arr(<<WC(3, 76)>>)),
    ReplaceMsg(TRUE,  Arr(<<WC(1, 76)>>), Arr(<<WC(4, 76)>>)),
    ReplaceMsg(TRUE,  Arr(<<WC(2, 4)>>),  Arr(<<WC(4, 4)>>)),
    ReplaceMsg(TRUE,  Arr(<<WC(1, 76), WC(2, 4)>>), Arr(<<WC(3, 80)>>)),
    ReplaceMsg(TRUE,  Arr(<<WC(3, 76)>>), Arr(<<WC(1, 76)>>)),
    \* src/test/server.cc input_as_output: an input named as an output
    ReplaceMsg(TRUE,  Arr(<<WC(1, 76)>>), Arr(<<WC(1, 76)>>)),
    ReplaceMsg(TRUE,  Arr(<<WC(1, 76)>>), Arr(<<WC(3, 38), WC(1, 38)>>)),
    \* requests that fail before the database is touched
    ReplaceMsg(FALSE, Arr(<<WC(1, 76)>>), Arr(<<WC(3, 76)>>)),
    ReplaceMsg(TRUE,  NoMember,           Arr(<<WC(3, 76)>>)),
    ReplaceMsg(TRUE,  Arr(<<WC(1, 76)>>), NoMember),
    ReplaceMsg(TRUE,  Arr(<<BadWC>>),     Arr(<<WC(3, 76)>>)),
    ReplaceMsg(TRUE,  Arr(<<WC(1, 38), WC(1, 38)>>), Arr(<<WC(3, 76)>>)),
    ReplaceMsg(TRUE,  Arr(<<WC(1, 76)>>), Arr(<<WC(3, 38), WC(3, 38)>>)),
    ReplaceMsg(TRUE,  Arr(<<WC(1, 76)>>), Arr(<<WC(3, 76), WC(4, 0)>>)),
    ReplaceMsg(TRUE,  Arr(<<WC(1, 77), WC(2, -1)>>), Arr(<<WC(3, 76)>>)),
    ReplaceMsg(TRUE,  Arr(<<WC(1, 76)>>), Arr(<<WC(3, 75)>>)),
    ReplaceMsg(TRUE,  Arr(<<WC(1, 100), WC(2, 100)>>),
                      Arr(<<WC(3, 100), WC(4, 100)>>)),
    \* passes validation, fails in the database
    ReplaceMsg(TRUE,  Arr(<<WC(1, 75)>>), Arr(<<WC(3, 75)>>)),
    ReplaceMsg(TRUE,  Arr(<<>>),          Arr(<<>>))
}

\* The decoded preimage of a mining report.  id stands for the base64 text
\* (the value of the UNIQUE column); bits is get_apparent_difficulty of its
\* SHA256, a function of the text.
Preimage(i, w, s, hd, d, ht, t, b) ==
    [id |-> i, webcash |-> w, subsidy |-> s, has_difficulty |-> hd,
     difficulty |-> d, has_timestamp |-> ht, timestamp |-> t, bits |-> b]

MiningMsg(l, p) == [kind |-> "mining_report", legalese |-> l, preimage |-> p]

KeepAndSubsidy(k, s, keep, sub) == Arr(<<WC(k, keep), WC(s, sub)>>)

MiningRequests == {
    \* src/test/server.cc: keep 190000, subsidy 10000, difficulty 28
    MiningMsg(TRUE, Preimage(1, KeepAndSubsidy(1, 2, 76, 4), Arr(<<WC(2, 4)>>),
                             TRUE, 28, FALSE, 0, 28)),
    MiningMsg(TRUE, Preimage(2, KeepAndSubsidy(3, 4, 76, 4), Arr(<<WC(4, 4)>>),
                             TRUE, 28, TRUE, 0, 28)),
    MiningMsg(TRUE, Preimage(3, KeepAndSubsidy(5, 6, 76, 4), Arr(<<WC(6, 4)>>),
                             FALSE, 0, FALSE, 0, 29)),
    \* the halved amounts of epoch 1
    MiningMsg(TRUE, Preimage(4, KeepAndSubsidy(3, 4, 38, 2), Arr(<<WC(4, 2)>>),
                             TRUE, 28, FALSE, 0, 28)),
    \* rejected before the database is touched
    MiningMsg(FALSE, Preimage(5, KeepAndSubsidy(3, 4, 76, 4), Arr(<<WC(4, 4)>>),
                             TRUE, 28, FALSE, 0, 28)),
    MiningMsg(TRUE, Preimage(6, KeepAndSubsidy(3, 4, 76, 4), Arr(<<WC(4, 4)>>),
                             FALSE, 0, FALSE, 0, 24)),
    MiningMsg(TRUE, Preimage(7, KeepAndSubsidy(3, 4, 76, 4), Arr(<<WC(4, 4)>>),
                             TRUE, 30, FALSE, 0, 28)),
    MiningMsg(TRUE, Preimage(8, KeepAndSubsidy(3, 4, 76, 4), Arr(<<WC(4, 5)>>),
                             TRUE, 28, FALSE, 0, 28)),
    MiningMsg(TRUE, Preimage(9, KeepAndSubsidy(3, 4, 76, 4), Arr(<<WC(4, 4)>>),
                             TRUE, 28, TRUE, 10000, 28)),
    \* rejected in the database: a committed difficulty below the current one
    MiningMsg(TRUE, Preimage(10, KeepAndSubsidy(3, 4, 76, 4), Arr(<<WC(4, 4)>>),
                             TRUE, 27, FALSE, 0, 28))
}

\* ----------------------------------------------------- request validation
check_legalese(request) == request.legalese

\* The std::map<uint256, SecretWebcash> built from a JSON array; fails on a
\* non-array, an unparsable string, or a second entry with the same hash.
RECURSIVE InsertAll(_, _)
InsertAll(items, webcash) ==
    IF items = <<>> THEN [ok |-> TRUE, webcash |-> webcash]
    ELSE LET e == Head(items) IN
         IF ~e.ok THEN [ok |-> FALSE, webcash |-> {}]
         ELSE IF e.hash \in HashesOf(webcash) THEN [ok |-> FALSE, webcash |-> {}]
         ELSE InsertAll(Tail(items),
                        webcash \cup {[hash |-> e.hash, amount |-> e.amount]})

parse_secret_webcashes(array) ==
    IF array.kind # "array" THEN [ok |-> FALSE, webcash |-> {}]
    ELSE InsertAll(array.items, {})

\* for (item : map) { total += amount; if (total < 1 || amount < 1) return }
\* in the map's key order
RECURSIVE RunningSum(_, _)
RunningSum(webcash, total) ==
    IF webcash = {} THEN [ok |-> TRUE, total |-> total]
    ELSE LET x == CHOOSE y \in webcash : \A z \in webcash : y.hash <= z.hash
             t == AmountAdd(total, x.amount)
         IN  IF t < 1 \/ x.amount < 1 THEN [ok |-> FALSE, total |-> t]
             ELSE RunningSum(webcash \ {x}, t)

\* V1::replace up to the point where the transaction is opened: the error
\* string of the first failing check, "" when all pass.
ReplaceValidation(m) ==
    LET ins  == parse_secret_webcashes(m.webcashes)
        outs == parse_secret_webcashes(m.new_webcashes)
        sin  == RunningSum(ins.webcash, 0)
        sout == RunningSum(outs.webcash, 0)
    IN  IF ~check_legalese(m) THEN "didn't accept terms"
        ELSE IF m.webcashes.kind = "missing" THEN "no inputs"
        ELSE IF ~ins.ok THEN "can't parse inputs"
        ELSE IF ~sin.ok THEN "overflow"
        ELSE IF m.new_webcashes.kind = "missing" THEN "no outputs"
        ELSE IF ~outs.ok THEN "can't parse inputs"
        ELSE IF ~sout.ok THEN "overflow"
        ELSE IF sin.total # sout.total THEN "inbalance"
        ELSE ""

\* V1::miningReport up to the point where the transaction is opened
MiningValidation(m, received) ==
    LET p    == m.preimage
        wc   == parse_secret_webcashes(p.webcash)
        sub  == parse_secret_webcashes(p.subsidy)
        swc  == RunningSum(wc.webcash, 0)
        ssub == RunningSum(sub.webcash, 0)
    IN  IF ~check_legalese(m) THEN "didn't accept terms"
        ELSE IF p.webcash.kind = "missing" THEN "missing 'webcash' field in preimage"
        ELSE IF ~wc.ok
             THEN "'webcash' field in preimage needs to be array of webcash secrets"
        ELSE IF p.subsidy.kind = "missing" THEN "missing 'subsidy' field in peimage"
        ELSE IF ~sub.ok
             THEN "'subsidy' field in preimage needs to be array of webcash secrets"
        ELSE IF p.has_difficulty /\ p.difficulty > MaxCommittedDifficulty
             THEN "'difficulty' field in preimage is too high"
        ELSE IF ~swc.ok THEN "overflow"
        ELSE IF ~ssub.ok THEN "overflow"
        ELSE IF \E s \in sub.webcash : s.hash \notin HashesOf(wc.webcash)
             THEN "missing subsidy from webcash"
        ELSE IF \E s \in sub.webcash : s \notin wc.webcash
             THEN "subsidy doesn't match webcash"
        ELSE IF Cardinality(wc.webcash) < Cardinality(sub.webcash)
                \/ swc.total < ssub.total
             THEN "internal server error"
        ELSE IF p.has_timestamp
                /\ (p.timestamp < received - TimestampWindow
                    \/ received + TimestampWindow < p.timestamp)
             THEN "timestamp of mining report must be within 2 hours of receipt by server"
        ELSE IF p.bits < DoSFloor THEN "difficulty too low"
        ELSE IF p.has_difficulty /\ p.bits < p.difficulty
             THEN "proof-of-work doesn't match committed difficulty"
        ELSE ""

\* ------------------------------------------------------- issuance schedule
getEpoch(n) == n \div k_reports_per_epoch

getMiningAmount(n) ==
    IF getEpoch(n) > MaxEpoch THEN 0
    ELSE ShiftRight(k_initial_mining_amount, getEpoch(n))

getSubsidyAmount(n) ==
    IF getEpoch(n) > MaxEpoch THEN 0
    ELSE ShiftRight(k_initial_subsidy_amount, getEpoch(n))

\* while (k_reports_per_epoch < count) { total += value * k_reports_per_epoch;
\* count -= k_reports_per_epoch; } total += count * value;
RECURSIVE CirculationLoop(_, _, _)
CirculationLoop(count, value, total) ==
    IF k_reports_per_epoch < count
    THEN CirculationLoop(count - k_reports_per_epoch, value,
                         total + value * k_reports_per_epoch)
    ELSE total + count * value

\* WebcashEconomy::getStats(now) as far as the request chains read it
getStats(timestamp) ==
    [num_reports          |-> num_reports,
     difficulty           |-> difficulty,
     total_circulation    |-> CirculationLoop(num_reports,
                                              k_initial_mining_amount, 0),
     expected_circulation |-> CirculationLoop(
                                  (timestamp - genesis) \div k_target_interval,
                                  k_initial_mining_amount, 0)]

\* 2^current_difficulty, in units of 2^20
Work(d) == 2 ^ (d - 20)

\* RecordMiningReport: the difficulty stored as next_difficulty
NextDifficulty(current_difficulty, received, last_received) ==
    LET stats    == getStats(received)
        n        == stats.num_reports + 1
        window   == IF n = k_look_back_window THEN k_look_back_window - 1
                    ELSE k_look_back_window
        expected == window * k_target_interval
        actual   == received - last_received
        up       == IF actual <= expected
                       /\ stats.expected_circulation <= stats.total_circulation
                    THEN 1 ELSE 0
        down     == IF expected <= actual
                       /\ stats.total_circulation <= stats.expected_circulation
                    THEN 1 ELSE 0
    IN  IF n % k_reports_per_interval = 0
        THEN current_difficulty + up - down
        ELSE current_difficulty

\* ------------------------------------------------------------ the database
NoTx == [open |-> FALSE, ins_spent |-> {}, del_unspent |-> {}, ins_unspent |-> {},
         ins_replacements |-> {}, ins_inputs |-> {}, ins_outputs |-> {},
         ins_reports |-> {}]
NewTx == [NoTx EXCEPT !.open = TRUE]

Others(r) == {q \in Req \ {r} : tx[q].open}

\* what a statement of r's transaction sees of UnspentOutputs
VisibleUnspent(r) ==
    {u \in UnspentOutputs : u.hash \notin tx[r].del_unspent} \cup tx[r].ins_unspent

\* SELECT COUNT(1) FROM UnspentOutputs INNER JOIN (VALUES ...) ON hash, amount
CountInputs(r, inputs) == Cardinality(inputs \cap VisibleUnspent(r))

\* SELECT COUNT(1) FROM UnspentOutputs WHERE hash IN (...)
CountOutputs(r, outputs) ==
    Cardinality({u \in VisibleUnspent(r) : u.hash \in HashesOf(outputs)})

\* INSERT INTO SpentHashes ... ON CONFLICT DO NOTHING: waits while another
\* transaction holds an uncommitted row with one of the hashes
SpendsBlocked(r, hs) == \E q \in Others(r) : tx[q].ins_spent \cap hs # {}
SpendsInserted(r, hs) == {h \in hs : h \notin SpentHashes /\ h \notin tx[r].ins_spent}

\* DELETE FROM UnspentOutputs WHERE hash IN (...): waits while another
\* transaction is deleting one of the rows
DeleteBlocked(r, hs) ==
    \E q \in Others(r) : tx[q].del_unspent \cap hs \cap HashesOf(VisibleUnspent(r)) # {}
DeletedRows(r, hs) == {h \in hs : h \in HashesOf(UnspentOutputs)}

\* INSERT INTO UnspentOutputs: waits while another transaction holds an
\* uncommitted row with the same hash, or is deleting the committed row
\* that stands in the way; fails on a visible row with the same hash.
InsertBlocked(r, rows) ==
    \E q \in Others(r) :
        \/ HashesOf(tx[q].ins_unspent) \cap HashesOf(rows) # {}
        \/ tx[q].del_unspent \cap HashesOf(rows) \cap HashesOf(VisibleUnspent(r)) # {}
\* faulty variant: any other open transaction counts as a conflict
InsertViolatesUnique_table(r, rows) ==
    \/ HashesOf(rows) \cap HashesOf(VisibleUnspent(r)) # {}
    \/ Others(r) # {}

InsertViolatesUnique(r, rows) ==
    HashesOf(rows) \cap HashesOf(VisibleUnspent(r)) # {}

\* faulty variant: no look-up and no UNIQUE constraint on preimage
ReportViolatesUnique_Unconstrained(preimage) == FALSE

\* INSERT INTO MiningReports: preimage is UNIQUE
ReportBlocked(r, preimage) ==
    \E q \in Others(r) : \E row \in tx[q].ins_reports : row.preimage = preimage
ReportViolatesUnique(preimage) ==
    \E row \in MiningReports : row.preimage = preimage

CountReports == hidden.reports + Cardinality(MiningReports)
CountReplacements == hidden.replacements + Cardinality(Replacements)
CountUnspent == hidden.unspent + Cardinality(UnspentOutputs)

\* SELECT ... FROM MiningReports ORDER BY id DESC LIMIT 1
LastMiningReport == CHOOSE row \in MiningReports : \A o \in MiningReports : o.id <= row.id
FirstMiningReport == CHOOSE row \in MiningReports : \A o \in MiningReports : row.id <= o.id

\* ------------------------------------------------- the loaded database
\* The server starts on an empty database or on one that already holds n
\* mining reports: the report of preimage 1, whose two outputs are unspent,
\* and n - 1 others whose outputs (two each) no request of the run names.
InitialReports == {0, 1, k_reports_per_interval - 1, k_reports_per_epoch}

ReportRow(i, t, p, d, nd, w) ==
    [id |-> i, received |-> t, preimage |-> p, difficulty |-> d,
     next_difficulty |-> nd, aggregate_work |-> w]

LoadedReports(n) ==
    IF n = 0 THEN {}
    ELSE {ReportRow(1, 0, 1, InitialDifficulty, InitialDifficulty,
                    Work(InitialDifficulty))}
         \cup (IF n = 1 THEN {}
               ELSE {ReportRow(n, 0, 0, InitialDifficulty, InitialDifficulty,
                               n * Work(InitialDifficulty))})

LoadedUnspent(n) ==
    IF n = 0 THEN {}
    ELSE {[hash |-> 1, amount |-> 76], [hash |-> 2, amount |-> 4]}

\* _upgradeDb: the cached values are loaded from the tables
Init ==
    \E n \in InitialReports :
        /\ MiningReports = LoadedReports(n)
        /\ UnspentOutputs = LoadedUnspent(n)
        /\ SpentHashes = {}
        /\ Replacements = {}
        /\ ReplacementInputs = {}
        /\ ReplacementOutputs = {}
        /\ hidden = [reports |-> n - Cardinality(LoadedReports(n)),
                     replacements |-> 0,
                     unspent |-> 2 * (n - Cardinality(LoadedReports(n)))]
        /\ mr_seq = n
        /\ rp_seq = 0
        /\ num_reports = n
        /\ num_replace = 0
        /\ num_unspent = 2 * (n - Cardinality(LoadedReports(n)))
                         + Cardinality(LoadedUnspent(n))
        /\ difficulty = InitialDifficulty
        /\ genesis = 0
        /\ now = 0
        /\ ticks = 0
        /\ pc = [r \in Req |-> "idle"]
        /\ msg = [r \in Req |-> [kind |-> "none"]]
        /\ st = [r \in Req |-> [received |-> 0]]
        /\ tx = [r \in Req |-> NoTx]
        /\ resp = [r \in Req |-> [status |-> "none"]]

\* ------------------------------------------------------- request plumbing
InFlight == {r \in Req : pc[r] \notin {"idle", "done"}}

\* a worker and a connection of the pool are free, and the earlier requests
\* have arrived
CanStart(r) ==
    /\ pc[r] = "idle"
    /\ \A q \in Req : q < r => pc[q] # "idle"
    /\ Cardinality(InFlight) < num_workers

\* absl::Now(): the clock has stood still or moved on since it was last read
ClockReadings == {now, now + TickStep}

ReadClock(t) ==
    /\ t # now => ticks < MaxTicks
    /\ now' = t
    /\ ticks' = IF t = now THEN ticks ELSE ticks + 1

JSONRPCError(err) == [status |-> "error", error |-> err, difficulty_target |-> 0]
Success(target)   == [status |-> "success", error |-> "", difficulty_target |-> target]

\* the request state is released with the last callback
NoState == [received |-> 0]

\* callback(JSONRPCError(err)) before a transaction exists
Reject(r, err) ==
    /\ pc' = [pc EXCEPT ![r] = "done"]
    /\ resp' = [resp EXCEPT ![r] = JSONRPCError(err)]
    /\ st' = [st EXCEPT ![r] = NoState]
    /\ UNCHANGED tx

\* tx->rollback(); callback(JSONRPCError(err)).  A failed statement rolls
\* the transaction back as well.
Rollback(r, err) ==
    /\ pc' = [pc EXCEPT ![r] = "done"]
    /\ resp' = [resp EXCEPT ![r] = JSONRPCError(err)]
    /\ st' = [st EXCEPT ![r] = NoState]
    /\ tx' = [tx EXCEPT ![r] = NoTx]

\* the statement succeeded and its callback issued the next one
Continue(r, next) ==
    /\ pc' = [pc EXCEPT ![r] = next]
    /\ UNCHANGED resp

\* -------------------------------------------------------- /api/v1/replace
V1_replace(r) ==
    /\ CanStart(r)
    /\ \E t \in ClockReadings, m \in ReplaceRequests :
        LET err  == ReplaceValidation(m)
            ins  == parse_secret_webcashes(m.webcashes).webcash
            outs == parse_secret_webcashes(m.new_webcashes).webcash
        IN  /\ ReadClock(t)
            /\ msg' = [msg EXCEPT ![r] = m]
            /\ IF err # ""
               THEN Reject(r, err)
               ELSE /\ st' = [st EXCEPT ![r] =
                            [received |-> t, inputs |-> ins, outputs |-> outs,
                             total_in |-> RunningSum(ins, 0).total,
                             total_out |-> RunningSum(outs, 0).total,
                             replacement_id |-> 0]]
                    /\ tx' = [tx EXCEPT ![r] = NewTx]
                    /\ Continue(r, "CheckInputsExist")
    /\ UNCHANGED <<dbvars, seqvars, cachevars>>

CheckInputsExist(r) ==
    /\ pc[r] = "CheckInputsExist"
    /\ IF st[r].inputs = {}
       THEN Rollback(r, "sql error")      \* "(VALUES)" does not parse
       ELSE IF CountInputs(r, st[r].inputs) # Cardinality(st[r].inputs)
       THEN Rollback(r, "input(s) not found")
       ELSE Continue(r, "CheckOutputsDoNotExist") /\ UNCHANGED <<st, tx>>
    /\ UNCHANGED <<dbvars, seqvars, cachevars, clockvars, msg>>

CheckOutputsDoNotExist(r) ==
    /\ pc[r] = "CheckOutputsDoNotExist"
    /\ IF CountOutputs(r, st[r].outputs) # 0
       THEN Rollback(r, "output(s) already exists")
       ELSE Continue(r, "RecordSpends") /\ UNCHANGED <<st, tx>>
    /\ UNCHANGED <<dbvars, seqvars, cachevars, clockvars, msg>>

RecordSpends(r) ==
    /\ pc[r] = "RecordSpends"
    /\ ~SpendsBlocked(r, HashesOf(st[r].inputs))
    /\ tx' = [tx EXCEPT ![r].ins_spent = @ \cup SpendsInserted(r, HashesOf(st[r].inputs))]
    /\ Continue(r, "RemoveInputs")
    /\ UNCHANGED <<dbvars, seqvars, cachevars, clockvars, msg, st>>

RemoveInputs(r) ==
    /\ pc[r] = "RemoveInputs"
    /\ ~DeleteBlocked(r, HashesOf(st[r].inputs))
    /\ tx' = [tx EXCEPT
                ![r].del_unspent = @ \cup DeletedRows(r, HashesOf(st[r].inputs)),
                ![r].ins_unspent = {u \in @ : u.hash \notin HashesOf(st[r].inputs)}]
    /\ Continue(r, "CreateOutputs")
    /\ UNCHANGED <<dbvars, seqvars, cachevars, clockvars, msg, st>>

\* faulty variant: the INSERT is issued on a plain connection and takes
\* effect at once
CreateOutputs_Autocommit(r) ==
    /\ pc[r] = "CreateOutputs"
    /\ UnspentOutputs' = UnspentOutputs \cup st[r].outputs
    /\ Continue(r, "RecordToAuditLog")
    /\ UNCHANGED <<SpentHashes, Replacements, ReplacementInputs, ReplacementOutputs,
                   MiningReports, hidden, seqvars, cachevars, clockvars, msg, st, tx>>

CreateOutputs(r) ==
    /\ pc[r] = "CreateOutputs"
    /\ ~InsertBlocked(r, st[r].outputs)
    /\ IF InsertViolatesUnique(r, st[r].outputs)
       THEN Rollback(r, "sql error")
       ELSE /\ tx' = [tx EXCEPT ![r].ins_unspent = @ \cup st[r].outputs]
            /\ Continue(r, "RecordToAuditLog")
            /\ UNCHANGED st
    /\ UNCHANGED <<dbvars, seqvars, cachevars, clockvars, msg>>

RecordToAuditLog(r) ==
    /\ pc[r] = "RecordToAuditLog"
    /\ rp_seq' = rp_seq + 1
    /\ st' = [st EXCEPT ![r].replacement_id = rp_seq + 1]
    /\ tx' = [tx EXCEPT ![r].ins_replacements =
                {[id |-> rp_seq + 1, received |-> st[r].received]}]
    /\ Continue(r, "RecordToAuditLogInputs")
    /\ UNCHANGED <<dbvars, mr_seq, cachevars, clockvars, msg>>

AuditRows(id, webcash) ==
    {[replacement_id |-> id, hash |-> w.hash, amount |-> w.amount] : w \in webcash}

RecordToAuditLogInputs(r) ==
    /\ pc[r] = "RecordToAuditLogInputs"
    /\ tx' = [tx EXCEPT ![r].ins_inputs = AuditRows(st[r].replacement_id, st[r].inputs)]
    /\ Continue(r, "RecordToAuditLogOutputs")
    /\ UNCHANGED <<dbvars, seqvars, cachevars, clockvars, msg, st>>

\* The callback of the last INSERT calls ReportReplacement, which registers
\* the commit callback and drops the last reference to the transaction:
\* the transaction commits.
RecordToAuditLogOutputs(r) ==
    /\ pc[r] = "RecordToAuditLogOutputs"
    /\ tx' = [tx EXCEPT ![r].ins_outputs = AuditRows(st[r].replacement_id, st[r].outputs)]
    /\ Continue(r, "Commit")
    /\ UNCHANGED <<dbvars, seqvars, cachevars, clockvars, msg, st>>

\* COMMIT: the transaction's writes become the committed rows
Commit(r) ==
    /\ pc[r] = "Commit"
    /\ UnspentOutputs' = {u \in UnspentOutputs : u.hash \notin tx[r].del_unspent}
                         \cup tx[r].ins_unspent
    /\ SpentHashes' = SpentHashes \cup tx[r].ins_spent
    /\ Replacements' = Replacements \cup tx[r].ins_replacements
    /\ ReplacementInputs' = ReplacementInputs \cup tx[r].ins_inputs
    /\ ReplacementOutputs' = ReplacementOutputs \cup tx[r].ins_outputs
    /\ MiningReports' = MiningReports \cup tx[r].ins_reports
    /\ tx' = [tx EXCEPT ![r] = NoTx]
    /\ Continue(r, "CommitCallback")
    /\ UNCHANGED <<hidden, seqvars, cachevars, clockvars, msg, st>>

\* COMMIT fails (the connection is lost, the disk is full): the
\* transaction's writes are gone; the commit callback is called with false
CommitFails(r) ==
    /\ pc[r] = "Commit"
    /\ tx' = [tx EXCEPT ![r] = NoTx]
    /\ Continue(r, "CommitCallback")
    /\ UNCHANGED <<dbvars, seqvars, cachevars, clockvars, msg, st>>

\* the commit callback set by ReportReplacement
ReportReplacement(r) ==
    /\ pc[r] = "CommitCallback"
    /\ msg[r].kind = "replace"
    /\ num_replace' = num_replace + 1
    /\ num_unspent' = num_unspent + Cardinality(st[r].outputs)
                                  - Cardinality(st[r].inputs)
    /\ pc' = [pc EXCEPT ![r] = "done"]
    /\ resp' = [resp EXCEPT ![r] = Success(0)]
    /\ st' = [st EXCEPT ![r] = NoState]
    /\ UNCHANGED <<dbvars, seqvars, num_reports, difficulty, genesis, clockvars,
                   msg, tx>>

\* -------------------------------------------------- /api/v1/mining_report
V1_miningReport(r) ==
    /\ CanStart(r)
    /\ \E t \in ClockReadings, m \in MiningRequests :
        LET err == MiningValidation(m, t)
            p   == m.preimage
            wc  == parse_secret_webcashes(p.webcash).webcash
            sub == parse_secret_webcashes(p.subsidy).webcash
        IN  /\ ReadClock(t)
            /\ msg' = [msg EXCEPT ![r] = m]
            /\ IF err # ""
               THEN Reject(r, err)
               ELSE /\ st' = [st EXCEPT ![r] =
                            [received |-> t, preimage |-> p.id, bits |-> p.bits,
                             has_difficulty |-> p.has_difficulty,
                             difficulty |-> p.difficulty,
                             webcash |-> wc, subsidy |-> sub,
                             webcash_sum |-> RunningSum(wc, 0).total,
                             subsidy_sum |-> RunningSum(sub, 0).total,
                             has_last_report |-> FALSE, num_reports |-> 0,
                             last_received |-> 0, last_difficulty |-> 0,
                             current_difficulty |-> 0, last_aggregate_work |-> 0,
                             next_difficulty |-> 0, aggregate_work |-> 0]]
                    /\ tx' = [tx EXCEPT ![r] = NewTx]
                    /\ Continue(r, "SelectLastMiningReport")
    /\ UNCHANGED <<dbvars, seqvars, cachevars>>

\* the fields SelectLastMiningReport fills in from the last row, or the
\* defaults of the first report
WithLastReport(s) ==
    IF MiningReports # {}
    THEN [s EXCEPT !.last_received = LastMiningReport.received,
                   !.last_difficulty = LastMiningReport.difficulty,
                   !.current_difficulty = LastMiningReport.next_difficulty,
                   !.last_aggregate_work = LastMiningReport.aggregate_work,
                   !.has_last_report = TRUE]
    ELSE [s EXCEPT !.last_difficulty = 0,
                   !.current_difficulty = InitialDifficulty,
                   !.last_aggregate_work = 0,
                   !.has_last_report = TRUE]

SelectLastMiningReport(r) ==
    /\ pc[r] = "SelectLastMiningReport"
    /\ LET s == WithLastReport(st[r]) IN
        IF s.has_difficulty /\ s.difficulty < s.current_difficulty
        THEN Rollback(r, "committed difficulty is less than current difficulty")
        ELSE IF s.bits < s.current_difficulty
        THEN Rollback(r, "proof of work doesn't meet current difficulty")
        ELSE /\ st' = [st EXCEPT ![r] = s]
             /\ Continue(r, "CheckNewMiningReportPreimage")
             /\ UNCHANGED tx
    /\ UNCHANGED <<dbvars, seqvars, cachevars, clockvars, msg>>

CheckNewMiningReportPreimage(r) ==
    /\ pc[r] = "CheckNewMiningReportPreimage"
    /\ IF ReportViolatesUnique(st[r].preimage)
       THEN Rollback(r, "reused preimage")
       ELSE IF st[r].webcash_sum # getMiningAmount(st[r].num_reports)
       THEN Rollback(r, "outputs don't match allowed amount")
       ELSE IF st[r].subsidy_sum # getSubsidyAmount(st[r].num_reports)
       THEN Rollback(r, "subsidy doesn't match required amount")
       ELSE Continue(r, "CheckOutputsDoNotExist_MiningReport") /\ UNCHANGED <<st, tx>>
    /\ UNCHANGED <<dbvars, seqvars, cachevars, clockvars, msg>>

CheckOutputsDoNotExist_MiningReport(r) ==
    /\ pc[r] = "CheckOutputsDoNotExist_MiningReport"
    /\ IF CountOutputs(r, st[r].webcash) # 0
       THEN Rollback(r, "output(s) already exists")
       ELSE Continue(r, "CreateOutputs_MiningReport") /\ UNCHANGED <<st, tx>>
    /\ UNCHANGED <<dbvars, seqvars, cachevars, clockvars, msg>>

\* The INSERT of the outputs.  Its callback runs the head of
\* RecordMiningReport: aggregate_work and next_difficulty are computed from
\* the cached statistics before the MiningReports row is inserted.
CreateOutputs_MiningReport(r) ==
    /\ pc[r] = "CreateOutputs_MiningReport"
    /\ ~InsertBlocked(r, st[r].webcash)
    /\ IF InsertViolatesUnique(r, st[r].webcash)
       THEN Rollback(r, "sql error")
       ELSE /\ tx' = [tx EXCEPT ![r].ins_unspent = @ \cup st[r].webcash]
            /\ st' = [st EXCEPT
                        ![r].aggregate_work =
                            st[r].last_aggregate_work + Work(st[r].current_difficulty),
                        ![r].next_difficulty =
                            NextDifficulty(st[r].current_difficulty, st[r].received,
                                           st[r].last_received)]
            /\ Continue(r, "RecordMiningReport")
    /\ UNCHANGED <<dbvars, seqvars, cachevars, clockvars, msg>>

\* The INSERT of the MiningReports row.  Its callback registers the commit
\* callback and drops the transaction, which commits.
RecordMiningReport(r) ==
    /\ pc[r] = "RecordMiningReport"
    /\ ~ReportBlocked(r, st[r].preimage)
    /\ mr_seq' = mr_seq + 1
    /\ IF ReportViolatesUnique(st[r].preimage)
       THEN Rollback(r, "sql error")
       ELSE /\ tx' = [tx EXCEPT ![r].ins_reports =
                        {ReportRow(mr_seq + 1, st[r].received, st[r].preimage,
                                   st[r].current_difficulty, st[r].next_difficulty,
                                   st[r].aggregate_work)}]
            /\ Continue(r, "Commit")
            /\ UNCHANGED st
    /\ UNCHANGED <<dbvars, rp_seq, cachevars, clockvars, msg>>

\* faulty variant: the commit callback counts the report, not its outputs
ReportSolution_CountsReport(r) ==
    /\ pc[r] = "CommitCallback"
    /\ msg[r].kind = "mining_report"
    /\ num_reports' = num_reports + 1
    /\ difficulty' = st[r].next_difficulty
    /\ num_unspent' = num_unspent + 1
    /\ pc' = [pc EXCEPT ![r] = "done"]
    /\ resp' = [resp EXCEPT ![r] = Success(st[r].next_difficulty)]
    /\ st' = [st EXCEPT ![r] = NoState]
    /\ UNCHANGED <<dbvars, seqvars, num_replace, genesis, clockvars, msg, tx>>

\* the commit callback set by RecordMiningReport
ReportSolution(r) ==
    /\ pc[r] = "CommitCallback"
    /\ msg[r].kind = "mining_report"
    /\ num_reports' = num_reports + 1
    /\ difficulty' = st[r].next_difficulty
    /\ num_unspent' = num_unspent + Cardinality(st[r].webcash)
    /\ pc' = [pc EXCEPT ![r] = "done"]
    /\ resp' = [resp EXCEPT ![r] = Success(st[r].next_difficulty)]
    /\ st' = [st EXCEPT ![r] = NoState]
    /\ UNCHANGED <<dbvars, seqvars, num_replace, genesis, clockvars, msg, tx>>

\* ------------------------------------------------------------ the wallet
\* A secret is [kind, n]: the keep secret of the n-th search that found a
\* solution, or the n-th change secret the wallet drew.
KeepSecret(n)   == [kind |-> "keep", n |-> n]
ChangeSecret(n) == [kind |-> "change", n |-> n]

\* PublicWebcash(sk): pk = SHA256(sk.sk), the amount is kept
PublicWebcash(sk, amount) == [sha256 |-> sk, amount |-> amount]

get_hash_type(mine, sweep) ==
    IF ~mine /\ ~sweep THEN "pay"
    ELSE IF ~mine /\ sweep THEN "recieve"
    ELSE IF mine /\ ~sweep THEN "change"
    ELSE "mining"

\* what a file open, an sqlite3 call or an HTTP call can come back with
Outcomes == {"ok", "failed"}

NoInsert == [sk |-> KeepSecret(0), amount |-> 0, mine |-> FALSE,
             call |-> "none", result |-> TRUE,
             secret_id |-> 0, output_id |-> 0, change_id |-> 0,
             change |-> ChangeSecret(0), ret |-> FALSE]

\* the secret the running AddSecretToWallet was called with
CallSecret == IF wins.call = "sk" THEN wins.sk ELSE wins.change
CallMine   == IF wins.call = "sk" THEN wins.mine ELSE TRUE
CallSweep  == wins.call = "sk"

\* Wallet::Insert ends with return b
Insert_return(b) ==
    /\ wpc' = "returned"
    /\ wins' = [wins EXCEPT !.ret = b]

\* faulty variant: no line is written and nothing is said about it
AddSecretToWallet_log_skipped ==
    /\ wpc = "AddSecretToWallet"
    /\ wins' = [wins EXCEPT !.result = TRUE]
    /\ wpc' = "AddSecretToWallet_insert"
    /\ UNCHANGED <<recovery_log, warned, secret, output, changes, srv>>

\* AddSecretToWallet, first half: the line for the recovery file.  When the
\* file cannot be opened a warning is printed and the key is still put into
\* the database.
AddSecretToWallet_log ==
    /\ wpc = "AddSecretToWallet"
    /\ \E bak \in Outcomes :
        IF bak = "ok"
        THEN /\ recovery_log' = recovery_log \cup
                    {[kind |-> get_hash_type(CallMine, CallSweep),
                      secret |-> CallSecret, amount |-> wins.amount]}
             /\ wins' = [wins EXCEPT !.result = TRUE]
             /\ UNCHANGED warned
        ELSE /\ wins' = [wins EXCEPT !.result = FALSE]
             /\ warned' = warned \cup {CallSecret}
             /\ UNCHANGED recovery_log
    /\ wpc' = "AddSecretToWallet_insert"
    /\ UNCHANGED <<secret, output, changes, srv>>

\* faulty variant: the id is returned although the recovery line failed
AddSecretToWallet_insert_unlogged ==
    /\ wpc = "AddSecretToWallet_insert"
    /\ \E res \in Outcomes :
        IF res = "failed" \/ \E row \in secret : row.secret = CallSecret
        THEN /\ Insert_return(FALSE)
             /\ UNCHANGED secret
        ELSE LET id == Cardinality(secret) + 1 IN
             /\ secret' = secret \cup {[id |-> id, secret |-> CallSecret,
                                        mine |-> CallMine, sweep |-> CallSweep]}
             /\ wpc' = IF wins.call = "sk" THEN "AddOutputToWallet"
                        ELSE "ReplaceWebcash"
             /\ wins' = IF wins.call = "sk"
                       THEN [wins EXCEPT !.secret_id = id]
                       ELSE [wins EXCEPT !.change_id = id]
    /\ UNCHANGED <<recovery_log, warned, output, changes, srv>>

\* AddSecretToWallet, second half: INSERT INTO 'secret' ('secret' is UNIQUE);
\* return result ? secret_id : 0, and what Wallet::Insert does with it
AddSecretToWallet_insert ==
    /\ wpc = "AddSecretToWallet_insert"
    /\ \E res \in Outcomes :
        IF res = "failed" \/ \E row \in secret : row.secret = CallSecret
        THEN /\ Insert_return(FALSE)
             /\ UNCHANGED secret
        ELSE LET id == Cardinality(secret) + 1 IN
             /\ secret' = secret \cup {[id |-> id, secret |-> CallSecret,
                                        mine |-> CallMine, sweep |-> CallSweep]}
             /\ IF ~wins.result
                THEN Insert_return(FALSE)
                ELSE /\ wpc' = IF wins.call = "sk" THEN "AddOutputToWallet"
                                ELSE "ReplaceWebcash"
                     /\ wins' = IF wins.call = "sk"
                               THEN [wins EXCEPT !.secret_id = id]
                               ELSE [wins EXCEPT !.change_id = id]
    /\ UNCHANGED <<recovery_log, warned, output, changes, srv>>

\* AddOutputToWallet: INSERT INTO 'output', called by Wallet::Insert for the
\* incoming secret and by ReplaceWebcash for the change
AddOutputToWallet ==
    /\ wpc = "AddOutputToWallet"
    /\ \E res \in Outcomes :
        IF res = "failed"
        THEN /\ Insert_return(FALSE)
             /\ UNCHANGED <<output, changes>>
        ELSE LET id == Cardinality(output) + 1 IN
             IF wins.call = "sk"
             THEN \* the output of sk; then the change secret is generated
                  /\ output' = output \cup
                        {[id |-> id, hash |-> PublicWebcash(wins.sk, wins.amount),
                          secret_id |-> wins.secret_id, amount |-> wins.amount,
                          spent |-> FALSE]}
                  /\ changes' = changes + 1
                  /\ wins' = [wins EXCEPT !.output_id = id, !.call = "change",
                                        !.change = ChangeSecret(changes + 1)]
                  /\ wpc' = "AddSecretToWallet"
             ELSE \* the output of the change: ret has one element
                  /\ output' = output \cup
                        {[id |-> id, hash |-> PublicWebcash(wins.change, wins.amount),
                          secret_id |-> wins.change_id, amount |-> wins.amount,
                          spent |-> FALSE]}
                  /\ Insert_return(TRUE)
                  /\ UNCHANGED changes
    /\ UNCHANGED <<recovery_log, warned, secret, srv>>

\* ReplaceWebcash up to the answer of /api/v1/replace: one input (the output
\* of sk, unspent, with its secret) and one output (the change) of the same
\* amount.  The server replaces sk when it holds it unspent.
ReplaceWebcash ==
    /\ wpc = "ReplaceWebcash"
    /\ IF wins.amount < 1
       THEN \* "Invalid amount for replacement output"
            /\ Insert_return(FALSE)
            /\ UNCHANGED srv
       ELSE \E net \in {"no request", "no response", "response"} :
            LET replaced == net # "no request" /\ wins.sk \in srv.unspent IN
            /\ srv' = IF replaced
                      THEN [srv EXCEPT !.unspent = (@ \ {wins.sk}) \cup {wins.change}]
                      ELSE srv
            /\ IF net = "response" /\ replaced
               THEN /\ wpc' = "ReplaceWebcash_update"
                    /\ UNCHANGED wins
               ELSE \* if (!r) return {};  if (r->status != 200) return {};
                    Insert_return(FALSE)
    /\ UNCHANGED <<recovery_log, warned, secret, output, changes>>

\* ReplaceWebcash after status 200: UPDATE 'output' SET spent=TRUE WHERE id=?;
\* a failure is printed and the loop goes on
ReplaceWebcash_update ==
    /\ wpc = "ReplaceWebcash_update"
    /\ \E res \in Outcomes :
        output' = IF res = "ok"
                  THEN {IF row.id = wins.output_id
                        THEN [row EXCEPT !.spent = TRUE] ELSE row : row \in output}
                  ELSE output
    /\ wpc' = "AddOutputToWallet"
    /\ UNCHANGED <<recovery_log, warned, secret, wins, changes, srv>>

\* ------------------------------------------------------------- the miner
Miners == 1..num_workers

Solution(id, bits, webcash) == [id |-> id, bits |-> bits, webcash |-> webcash]

NoSolution == Solution(0, 0, KeepSecret(0))

\* keep.amount = g_mining_amount - g_subsidy_amount
KeepAmount == getMiningAmount(0) - getSubsidyAmount(0)

\* mining_thread_func, top of while (!done): done is never assigned
MiningLoop(t) ==
    /\ mpc[t] = "while"
    /\ IF g_difficulty > max_difficulty
       THEN \* absl::SleepFor(absl::Seconds(5)); continue;
            UNCHANGED <<mpc, search>>
       ELSE \* fresh keep and subsidy secrets, prefix, midstate
            /\ mpc' = [mpc EXCEPT ![t] = "search"]
            /\ search' = [search EXCEPT ![t] = 0]
    /\ UNCHANGED <<g_solutions, g_difficulty, g_shutdown, max_difficulty, mined,
                   upc, soln, fetch_settings, settings_due, orphan_log,
                   webcash_log, walletvars, peervars>>

\* a hash passes check_proof_of_work(hash, g_difficulty): the solution goes
\* to the back of the queue; break leaves the loop over k only, the search
\* goes on with the same keep secret
FoundSolution(t) ==
    /\ mpc[t] = "search"
    /\ mined < MaxSolutions
    /\ \E bits \in {g_difficulty, g_difficulty + 1} :
        LET id == mined + 1
            n  == IF search[t] = 0 THEN id ELSE search[t]
        IN  /\ g_solutions' = Append(g_solutions, Solution(id, bits, KeepSecret(n)))
            /\ search' = [search EXCEPT ![t] = n]
            /\ mined' = id
    /\ UNCHANGED <<g_difficulty, g_shutdown, max_difficulty, mpc, upc, soln,
                   fetch_settings, settings_due, orphan_log, webcash_log,
                   walletvars, peervars>>

\* the loops over i and j are through
SearchExhausted(t) ==
    /\ mpc[t] = "search"
    /\ mpc' = [mpc EXCEPT ![t] = "while"]
    /\ search' = [search EXCEPT ![t] = 0]
    /\ UNCHANGED <<g_solutions, g_difficulty, g_shutdown, max_difficulty, mined,
                   upc, soln, fetch_settings, settings_due, orphan_log,
                   webcash_log, walletvars, peervars>>

\* update_thread_func, top of while (!g_shutdown), with the fetch of the
\* protocol settings when it is due
UpdateLoop ==
    /\ upc = "while"
    /\ IF g_shutdown
       THEN /\ upc' = "exited"
            /\ UNCHANGED <<g_difficulty, fetch_settings, settings_due>>
       ELSE /\ upc' = "drain"
            /\ fetch_settings' = FALSE
            /\ IF fetch_settings
               THEN /\ settings_due' = FALSE
                    /\ \E res \in Outcomes :
                        g_difficulty' = IF res = "ok" THEN srv.difficulty
                                        ELSE g_difficulty
               ELSE UNCHANGED <<g_difficulty, settings_due>>
    /\ UNCHANGED <<g_solutions, g_shutdown, max_difficulty, mpc, search, mined,
                   soln, orphan_log, webcash_log, walletvars, peervars>>

\* faulty variant: the front of the queue is taken whatever its difficulty
Dequeue_unchecked ==
    /\ upc = "drain"
    /\ IF g_solutions = <<>>
       THEN /\ upc' = "wait"
            /\ UNCHANGED <<g_solutions, soln>>
       ELSE /\ g_solutions' = Tail(g_solutions)
            /\ soln' = Head(g_solutions)
            /\ upc' = "post"
    /\ UNCHANGED <<g_difficulty, g_shutdown, max_difficulty, mpc, search, mined,
                   fetch_settings, settings_due, orphan_log, webcash_log,
                   walletvars, srv, posted, accepted>>
    /\ post_result' = "none"

\* top of while (true): the front of the queue is taken; a solution below
\* the cached difficulty goes to the orphan log
Dequeue ==
    /\ upc = "drain"
    /\ IF g_solutions = <<>>
       THEN /\ upc' = "wait"
            /\ UNCHANGED <<g_solutions, soln, orphan_log>>
       ELSE /\ g_solutions' = Tail(g_solutions)
            /\ IF Head(g_solutions).bits < g_difficulty
               THEN /\ orphan_log' = orphan_log \cup {Head(g_solutions)}
                    /\ UNCHANGED <<upc, soln>>
               ELSE /\ soln' = Head(g_solutions)
                    /\ upc' = "post"
                    /\ UNCHANGED orphan_log
    /\ UNCHANGED <<g_difficulty, g_shutdown, max_difficulty, mpc, search, mined,
                   fetch_settings, settings_due, webcash_log, walletvars,
                   srv, posted, accepted>>
    /\ post_result' = "none"

\* what /api/v1/mining_report does with the solution in hand: src/server.cc
\* answers 500 to a preimage it holds ("reused preimage"), to a hash below
\* its difficulty and to an output hash it holds; the miner's test for
\* status 400 "Didn't use a new secret value." is for a server that answers
\* a known preimage that way
Acceptable(s) ==
    /\ s.id \notin srv.reports
    /\ s.bits >= srv.difficulty
    /\ s.webcash \notin srv.unspent

Answers(s) ==
    IF Acceptable(s) THEN {"200"}
    ELSE IF s.id \in srv.reports THEN {"500", "400"}
    ELSE {"500"}

\* the difficulty after one more report: unchanged, or one higher at the end
\* of an interval
NextDifficulties == {srv.difficulty} \cup
                    (IF srv.difficulty = InitialDifficulty
                     THEN {InitialDifficulty + 1} ELSE {})

\* the HTTP call came back with status 200, or 400 with the text above:
\* the cached difficulty is updated and the wallet is called
CallInsert(target) ==
    /\ g_difficulty' = IF target = 0 THEN g_difficulty ELSE target
    /\ upc' = "Insert"
    /\ wpc' = "AddSecretToWallet"
    /\ wins' = [NoInsert EXCEPT !.sk = soln.webcash, !.amount = KeepAmount,
                                !.mine = TRUE, !.call = "sk"]
    /\ UNCHANGED <<g_solutions, soln, settings_due, orphan_log>>

\* faulty variant: the solution that got no answer goes to the back
Requeue_back ==
    /\ g_solutions' = Append(g_solutions, soln)
    /\ upc' = "wait"
    /\ soln' = NoSolution
    /\ UNCHANGED <<g_difficulty, settings_due, orphan_log, wpc, wins>>

\* faulty variant: the thread goes on with the queue after putting it back
Requeue_continue ==
    /\ g_solutions' = <<soln>> \o g_solutions
    /\ upc' = "drain"
    /\ soln' = NoSolution
    /\ UNCHANGED <<g_difficulty, settings_due, orphan_log, wpc, wins>>

\* if (!r): g_solutions.push_front(soln); break;
Requeue ==
    /\ g_solutions' = <<soln>> \o g_solutions
    /\ upc' = "wait"
    /\ soln' = NoSolution
    /\ UNCHANGED <<g_difficulty, settings_due, orphan_log, wpc, wins>>

\* any other status: the settings are fetched anew, the solution goes to the
\* orphan log
\* faulty variant: the rejection leaves the next settings fetch where it was
Rejected_not_due ==
    /\ UNCHANGED settings_due
    /\ orphan_log' = orphan_log \cup {soln}
    /\ upc' = "drain"
    /\ soln' = NoSolution
    /\ UNCHANGED <<g_solutions, g_difficulty, wpc, wins>>

Rejected ==
    /\ settings_due' = TRUE
    /\ orphan_log' = orphan_log \cup {soln}
    /\ upc' = "drain"
    /\ soln' = NoSolution
    /\ UNCHANGED <<g_solutions, g_difficulty, wpc, wins>>

\* cli.Post("/api/v1/mining_report", ...) and what follows from its result
PostMiningReport ==
    /\ upc = "post"
    /\ posted' = posted \cup {soln.id}
    /\ \E net \in {"no request", "no response", "response"},
          nd \in NextDifficulties, status \in Answers(soln) :
        LET recorded == net # "no request" /\ status = "200" IN
        /\ srv' = IF recorded
                  THEN [reports    |-> srv.reports \cup {soln.id},
                        unspent    |-> srv.unspent \cup {soln.webcash},
                        difficulty |-> nd]
                  ELSE srv
        /\ post_result' = IF net = "response" THEN status ELSE "error"
        /\ accepted' = IF net = "response" /\ status = "200"
                       THEN accepted \cup {soln} ELSE accepted
        /\ IF net # "response" THEN Requeue
           ELSE IF status = "500" THEN Rejected
           ELSE IF status = "400" THEN CallInsert(0)
           ELSE CallInsert(nd)
    /\ UNCHANGED <<g_shutdown, max_difficulty, mpc, search, mined, fetch_settings,
                   webcash_log, recovery_log, warned, secret, output,
                   changes>>

\* faulty variant: nothing is written when Wallet::Insert returns false
ClaimCoin_dropped ==
    /\ upc = "Insert"
    /\ wpc = "returned"
    /\ upc' = "drain"
    /\ wpc' = "idle"
    /\ wins' = NoInsert
    /\ soln' = NoSolution
    /\ UNCHANGED <<g_solutions, g_difficulty, g_shutdown, max_difficulty, mpc,
                   search, mined, fetch_settings, settings_due, orphan_log,
                   webcash_log, recovery_log, warned, secret, output, changes,
                   srv, posted, accepted>>
    /\ post_result' = "none"

\* Wallet::Insert has returned: if (!g_wallet->Insert(soln.webcash)) the claim
\* code goes to the webcash log
ClaimCoin ==
    /\ upc = "Insert"
    /\ wpc = "returned"
    /\ webcash_log' = IF wins.ret THEN webcash_log
                      ELSE webcash_log \cup {soln.webcash}
    /\ upc' = "drain"
    /\ wpc' = "idle"
    /\ wins' = NoInsert
    /\ soln' = NoSolution
    /\ UNCHANGED <<g_solutions, g_difficulty, g_shutdown, max_difficulty, mpc,
                   search, mined, fetch_settings, settings_due, orphan_log,
                   recovery_log, warned, secret, output, changes, srv, posted, accepted>>
    /\ post_result' = "none"

\* faulty variant: a wait without deadline whose notification was missed
Wait_forever ==
    /\ upc = "wait"
    /\ UNCHANGED <<minervars, walletvars, peervars>>

\* g_update_thread_cv.wait_until(...) returns: notified, timed out or woken
\* for no reason; the settings are due when their time has come
Wait ==
    /\ upc = "wait"
    /\ upc' = "while"
    /\ \E due \in BOOLEAN :
        fetch_settings' = (fetch_settings \/ settings_due \/ due)
    /\ UNCHANGED <<g_solutions, g_difficulty, g_shutdown, max_difficulty, mpc,
                   search, mined, soln, settings_due, orphan_log, webcash_log,
                   walletvars, srv, posted, accepted>>
    /\ post_result' = "none"

\* the shutdown flag is raised
RequestShutdown ==
    /\ ~g_shutdown
    /\ g_shutdown' = TRUE
    /\ UNCHANGED <<g_solutions, g_difficulty, max_difficulty, mpc, search, mined,
                   upc, soln, fetch_settings, settings_due, orphan_log,
                   webcash_log, walletvars, peervars>>

\* a statement of Wallet::Insert, run by update_thread_func
Wallet(step) ==
    /\ upc = "Insert"
    /\ step
    /\ UNCHANGED <<minervars, posted, post_result, accepted>>

\* ------------------------------------------------- amounts and strings
FractionDigits == 8          \* "no more than 8 digits past the decimal point"
Scale          == 100000000  \* std::lldiv(std::abs(amt.i64), 100000000LL)

DigitChars == <<"0", "1", "2", "3", "4", "5", "6", "7", "8", "9">>

isdigit(c) == \E d \in 1..10 : DigitChars[d] = c

DigitValue(c) == (CHOOSE d \in 1..10 : DigitChars[d] = c) - 1

\* std::to_string(long long) of a non-negative number
RECURSIVE Decimal(_)
Decimal(n) ==
    IF n < 10 THEN <<DigitChars[n + 1]>>
    ELSE Append(Decimal(n \div 10), DigitChars[(n % 10) + 1])

\* while (res.back() == '0') res.pop_back();
RECURSIVE PopZeros(_)
PopZeros(res) ==
    IF res[Len(res)] = "0" THEN PopZeros(SubSeq(res, 1, Len(res) - 1)) ELSE res

\* faulty variant: the fraction is not filled up with zeros on the left
to_string_unpadded(a) ==
    LET abs  == IF a < 0 THEN -a ELSE a
        quot == abs \div Scale
        rem  == abs % Scale
        res  == (IF a < 0 THEN <<"-">> ELSE <<>>) \o Decimal(quot)
    IN  IF rem # 0 THEN PopZeros(res \o <<".">> \o Decimal(rem)) ELSE res

\* std::string to_string(const Amount& amt)
to_string(a) ==
    LET abs  == IF a < 0 THEN -a ELSE a
        quot == abs \div Scale
        rem  == abs % Scale
        res  == (IF a < 0 THEN <<"-">> ELSE <<>>) \o Decimal(quot)
        frac == Decimal(rem)
    IN  IF rem # 0
        THEN PopZeros(res \o <<".">>
                          \o [k \in 1..(FractionDigits - Len(frac)) |-> "0"] \o frac)
        ELSE res

\* i > std::numeric_limits<int64_t>::max(), 9223372036854775807, taken in
\* groups of nine digits
OverInt64(i) ==
    LET lo == i % 1000000000
        hi == i \div 1000000000
        hl == hi % 1000000000
        hh == hi \div 1000000000
    IN  \/ hh > 9
        \/ hh = 9 /\ hl > 223372036
        \/ hh = 9 /\ hl = 223372036 /\ lo > 854775807

ParseFailed == [ok |-> FALSE, i64 |-> 0]

\* for (; pos != end && isdigit(*pos); ++pos): [pos, i, ok]
RECURSIVE WholeDigits(_, _, _, _)
WholeDigits(s, pos, end, i) ==
    IF pos # end /\ isdigit(s[pos])
    THEN LET n == 10 * i + DigitValue(s[pos]) IN
         IF OverInt64(n) THEN [pos |-> pos, i |-> n, ok |-> FALSE]
         ELSE WholeDigits(s, pos + 1, end, n)
    ELSE [pos |-> pos, i |-> i, ok |-> TRUE]

\* for (; j < 8 && pos != end; ++j, ++pos): [pos, i, j, ok]
RECURSIVE FractionalDigits(_, _, _, _, _)
FractionalDigits(s, pos, end, i, j) ==
    IF j < FractionDigits /\ pos # end
    THEN IF ~isdigit(s[pos]) THEN [pos |-> pos, i |-> i, j |-> j, ok |-> FALSE]
         ELSE FractionalDigits(s, pos + 1, end, 10 * i + DigitValue(s[pos]), j + 1)
    ELSE [pos |-> pos, i |-> i, j |-> j, ok |-> TRUE]

\* for (; j < 8; ++j) i *= 10;
RECURSIVE PadFraction(_, _)
PadFraction(i, j) == IF j < FractionDigits THEN PadFraction(10 * i, j + 1) ELSE i

\* Amount::parse from the digits on: [ok, i64]
ParseDigits(s, pos, end, negative) ==
    LET whole == WholeDigits(s, pos, end, 0) IN
    IF ~whole.ok THEN ParseFailed
    ELSE IF whole.pos # end /\ s[whole.pos] # "." THEN ParseFailed
    ELSE IF whole.pos # end /\ whole.pos + 1 = end THEN ParseFailed
    ELSE LET frac == IF whole.pos # end
                     THEN FractionalDigits(s, whole.pos + 1, end, whole.i, 0)
                     ELSE [pos |-> end, i |-> whole.i, j |-> 0, ok |-> TRUE]
             i    == PadFraction(frac.i, frac.j)
         IN  IF ~frac.ok \/ frac.pos # end \/ OverInt64(i) THEN ParseFailed
             ELSE [ok |-> TRUE, i64 |-> IF negative THEN -i ELSE i]

\* the character '\0', which strnlen stops at
NUL == "NUL"

\* bool Amount::parse(const absl::string_view& str); pos and end count from 1,
\* end is one past the last character read
parse(s) ==
    IF s = <<>> THEN ParseFailed
    ELSE IF \E k \in 1..Len(s) : s[k] = NUL THEN ParseFailed
    ELSE LET quoted == s[1] = "\""
             end    == IF quoted
                       THEN CHOOSE e \in 1..Len(s) :
                               s[e] = "\"" /\ \A k \in (e + 1)..Len(s) : s[k] # "\""
                       ELSE Len(s) + 1
             first  == IF quoted THEN 2 ELSE 1
             negative == s[first] = "-"
             pos    == IF negative THEN first + 1 ELSE first
         IN  IF quoted /\ end = 1 THEN ParseFailed
             ELSE IF negative /\ pos = end THEN ParseFailed
             ELSE IF ~isdigit(s[pos]) THEN ParseFailed
             ELSE IF s[pos] = "0" /\ pos + 1 # end /\ s[pos + 1] # "." THEN ParseFailed
             ELSE ParseDigits(s, pos, end, negative)

\* the amounts that are formatted: one or two leading digits in every
\* decimal place, alone and with digits in the last places
Amounts ==
    {m * PadFraction(1, FractionDigits - k) + c :
        m \in 0..MaxMantissa, k \in 0..FractionDigits, c \in {0, 1, 90}}

\* quoted and uncanonical strings of the tests, which to_string never prints
OtherStrings ==
    {<<"\"", "0", ".", "1", "\"">>, <<"3", ".", "0">>, <<"0", "3">>,
     <<"3", ".">>, <<"\"">>, <<"0", ".", "0", "0", "0", "0", "0", "0", "0", "0", "1">>,
     <<"-">>, <<"\"", "-", "\"">>, <<"-", "0">>, <<"-", "3", ".", "5">>,
     <<"\"", "-", "3", ".", "5", "\"">>, <<".", "5">>, <<"-", ".", "5">>,
     <<"\"", "\"">>, <<"\"", "3">>, <<"3", "\"">>,
     <<"\"", "\"", "3", ".", "0", "\"">>,
     <<"\"", "\"", "3", ".", "0", "\"", "\"">>,
     <<"\"", "\"", "3", "\"", ".", "0", "\"">>,
     <<"\"", "1", ".", "5", "\"", "a", "b", "c">>, <<"\"", "3", "\"", "0">>,
     <<"3", NUL>>, <<"3", NUL, "1">>, <<"\"", "3", "\"", NUL>>,
     <<"3", ".", "a">>, <<"3", "a">>, <<"a">>, <<"-", "-", "1">>, <<"0", "0">>,
     <<"1", ".", "2", ".", "3">>, <<"3", ".", "1", "2", "3", "4", "5", "6", "7", "8">>}

NotParsed == [called |-> FALSE, ok |-> FALSE, i64 |-> 0]

AmountIdle ==
    /\ amt = 0
    /\ str = <<>>
    /\ parsed = NotParsed

\* res = to_string(amt)
Format ==
    /\ amt \in Amounts
    /\ str = <<>>
    /\ str' = to_string(amt)
    /\ UNCHANGED <<amt, parsed>>

\* a string from elsewhere
Receive ==
    /\ amt = -1
    /\ str = <<>>
    /\ str' \in OtherStrings
    /\ UNCHANGED <<amt, parsed>>

\* ok = amount.parse(str)
Parse ==
    /\ str # <<>>
    /\ ~parsed.called
    /\ parsed' = [called |-> TRUE, ok |-> parse(str).ok, i64 |-> parse(str).i64]
    /\ UNCHANGED <<amt, str>>

\* a step on an Amount: nothing else is in the picture
Unit(step) ==
    /\ step
    /\ UNCHANGED <<vars, gs, clientvars, lockvars, powvars, hc, settingsvars>>

\* ------------------------------------------- the wallet and its threads
\* The public and protected operations that write, called on one Wallet by
\* several threads.
Callers == 1..num_workers

LockIdle ==
    /\ m_mut = 0
    /\ wt = [t \in Callers |-> [op |-> "none", pc |-> "idle", calls |-> 0]]
    /\ terms = {}

\* a thread enters an operation; AcceptTerms starts with AreTermsAccepted,
\* the others with const std::lock_guard<std::mutex> lock(m_mut)
CallWallet(t) ==
    /\ wt[t].pc = "idle"
    /\ wt[t].calls < MaxCalls
    /\ \E op \in {"AddSecretToWallet", "AddOutputToWallet", "ReplaceWebcash",
                  "AcceptTerms"} :
        wt' = [wt EXCEPT ![t] = [op |-> op, calls |-> @.calls + 1,
                                 pc |-> IF op = "AcceptTerms"
                                        THEN "AreTermsAccepted" ELSE "lock"]]
    /\ UNCHANGED <<m_mut, terms, recovery_log, secret, output>>

\* std::lock_guard: the constructor returns when the mutex is free
lock_guard(t) ==
    /\ wt[t].pc = "lock"
    /\ m_mut = 0
    /\ m_mut' = t
    /\ wt' = [wt EXCEPT ![t].pc = IF wt[t].op = "AddSecretToWallet"
                                  THEN "bak" ELSE "sqlite3_step"]
    /\ UNCHANGED <<terms, recovery_log, secret, output>>

\* AddSecretToWallet: the line of the recovery file
WriteRecoveryLine(t) ==
    /\ wt[t].pc = "bak"
    /\ recovery_log' = recovery_log \cup
            {[kind |-> get_hash_type(TRUE, TRUE),
              secret |-> KeepSecret(MaxCalls * t + wt[t].calls), amount |-> 1]}
    /\ wt' = [wt EXCEPT ![t].pc = "sqlite3_step"]
    /\ UNCHANGED <<m_mut, terms, secret, output>>

\* the INSERT or UPDATE of the operation, and the end of the lock's scope
WriteRow(t) ==
    /\ wt[t].pc = "sqlite3_step"
    /\ LET sk == KeepSecret(MaxCalls * t + wt[t].calls) IN
       CASE wt[t].op = "AddSecretToWallet" ->
                /\ secret' = secret \cup {[id |-> Cardinality(secret) + 1, secret |-> sk,
                                           mine |-> TRUE, sweep |-> TRUE]}
                /\ UNCHANGED output
         [] wt[t].op = "AddOutputToWallet" ->
                /\ output' = output \cup
                       {[id |-> Cardinality(output) + 1, hash |-> PublicWebcash(sk, 1),
                         secret_id |-> 0, amount |-> 1, spent |-> FALSE]}
                /\ UNCHANGED secret
         [] OTHER ->
                \* UPDATE 'output' SET spent=TRUE WHERE id=?
                /\ output' = {[row EXCEPT !.spent = TRUE] : row \in output}
                /\ UNCHANGED secret
    /\ m_mut' = 0
    /\ wt' = [wt EXCEPT ![t].pc = "idle"]
    /\ UNCHANGED <<terms, recovery_log>>

\* AcceptTerms: if (!AreTermsAccepted(terms))
AreTermsAccepted(t) ==
    /\ wt[t].pc = "AreTermsAccepted"
    /\ wt' = [wt EXCEPT ![t].pc = IF \E row \in terms : row.body = "terms"
                                  THEN "idle" ELSE "INSERT INTO 'terms'"]
    /\ UNCHANGED <<m_mut, terms, recovery_log, secret, output>>

\* AcceptTerms: INSERT INTO 'terms'; a second row of the same body violates
\* UNIQUE and the step throws std::runtime_error
AcceptTerms(t) ==
    /\ wt[t].pc = "INSERT INTO 'terms'"
    /\ IF \E row \in terms : row.body = "terms"
       THEN /\ wt' = [wt EXCEPT ![t].pc = "runtime_error"]
            /\ UNCHANGED terms
       ELSE /\ terms' = terms \cup {[id |-> Cardinality(terms) + 1, body |-> "terms"]}
            /\ wt' = [wt EXCEPT ![t].pc = "idle"]
    /\ UNCHANGED <<m_mut, recovery_log, secret, output>>

\* a step of a calling thread: the miner and the server are not in the picture
Caller(step) ==
    /\ step
    /\ UNCHANGED <<vars, gs, minervars, peervars, warned, wpc, wins, changes,
                   amountvars, powvars, hc, settingsvars>>

\* ---------------------------------------------------- /api/v1/health_check
NoHealthCheck ==
    [pc |-> "idle", arg |-> 0, unspent |-> {}, spent |-> {},
     status |-> [spent |-> "none"], before |-> [unspent |-> {}, spent |-> {}]]

\* the committed rows of a hash: READ COMMITTED, no transaction is open
UnspentRows(pk) == {u \in UnspentOutputs : u.hash = pk}
SpentRows(pk) == SpentHashes \cap {pk}

\* faulty variant: a hash found in neither table is reported as spent
ReturnResults_spent(h) ==
    IF h.unspent # {}
    THEN [spent |-> "false", amount |-> (CHOOSE u \in h.unspent : TRUE).amount]
    ELSE [spent |-> "true"]

\* ReturnResults: the status of the one hash of the request
ReturnResults(h) ==
    IF h.unspent # {}
    THEN [spent |-> "false", amount |-> (CHOOSE u \in h.unspent : TRUE).amount]
    ELSE IF h.arg \in h.spent THEN [spent |-> "true"]
    ELSE [spent |-> "null"]

\* V1::healthCheck: the arguments are parsed and the first query is sent
V1_healthCheck ==
    /\ hc.pc = "idle"
    /\ \E pk \in Hashes :
           hc' = [hc EXCEPT !.pc = "CheckUnspentOutputs", !.arg = pk,
                            !.before = [unspent |-> UnspentRows(pk),
                                        spent |-> SpentRows(pk)]]

\* the result of sql_unspent arrives; the second query is sent
CheckUnspentOutputs ==
    /\ hc.pc = "CheckUnspentOutputs"
    /\ hc' = [hc EXCEPT !.pc = "CheckSpentOutputs", !.unspent = UnspentRows(hc.arg)]

\* the result of sql_spent arrives; ReturnResults answers
CheckSpentOutputs ==
    /\ hc.pc = "CheckSpentOutputs"
    /\ LET h == [hc EXCEPT !.spent = SpentRows(hc.arg)] IN
       hc' = [h EXCEPT !.pc = "done", !.status = ReturnResults(h)]

Health(step) ==
    /\ step
    /\ UNCHANGED <<vars, gs, clientvars, lockvars, amountvars, powvars,
                   settingsvars>>

\* ------------------------------------------- protocol settings, the miner
\* the settings the server hands out after its k-th change: each change
\* starts a new epoch; the difficulty goes up by one and comes down again
ServerSettings(k) ==
    [difficulty     |-> InitialDifficulty + (k % 2),
     mining_amount  |-> getMiningAmount(k * k_reports_per_epoch),
     subsidy_amount |-> getSubsidyAmount(k * k_reports_per_epoch)]

NotBuilt ==
    [pc |-> "keep", mining_amount |-> 0, keep |-> 0, subsidy |-> 0,
     difficulty |-> 0, preimages |-> 0, pushed |-> {}]

\* main has fetched the settings and stored them before it starts the threads
SettingsStart ==
    /\ g_mining_amount = ServerSettings(0).mining_amount
    /\ g_subsidy_amount = ServerSettings(0).subsidy_amount
    /\ server_settings = 0
    /\ fetched = [pc |-> "fetch", settings |-> ServerSettings(0)]
    /\ build = NotBuilt

\* update_thread_func: get_protocol_settings(server, settings); on failure
\* nothing is stored
get_protocol_settings ==
    /\ fetched.pc = "fetch"
    /\ \E k \in {server_settings, server_settings + 1}, ok \in BOOLEAN :
        /\ k <= MaxFetches
        /\ server_settings' = k
        /\ fetched' = IF ok THEN [pc |-> "g_difficulty", settings |-> ServerSettings(k)]
                      ELSE fetched
    /\ UNCHANGED <<g_difficulty, g_mining_amount, g_subsidy_amount, build>>

\* g_difficulty = settings.difficulty;
StoreDifficulty ==
    /\ fetched.pc = "g_difficulty"
    /\ g_difficulty' = fetched.settings.difficulty
    /\ fetched' = [fetched EXCEPT !.pc = "g_mining_amount"]
    /\ UNCHANGED <<g_mining_amount, g_subsidy_amount, server_settings, build>>

\* g_mining_amount = settings.mining_amount;
StoreMiningAmount ==
    /\ fetched.pc = "g_mining_amount"
    /\ g_mining_amount' = fetched.settings.mining_amount
    /\ fetched' = [fetched EXCEPT !.pc = "g_subsidy_amount"]
    /\ UNCHANGED <<g_difficulty, g_subsidy_amount, server_settings, build>>

\* g_subsidy_amount = settings.subsidy_amount;
StoreSubsidyAmount ==
    /\ fetched.pc = "g_subsidy_amount"
    /\ g_subsidy_amount' = fetched.settings.subsidy_amount
    /\ fetched' = [fetched EXCEPT !.pc = "fetch"]
    /\ UNCHANGED <<g_difficulty, g_mining_amount, server_settings, build>>

\* mining_thread_func: keep.amount = g_mining_amount - g_subsidy_amount, the
\* first of the two loads (the operands are loaded in either order)
LoadFirstOperand ==
    /\ build.pc = "keep"
    /\ build.preimages < MaxPreimages
    /\ \/ build' = [build EXCEPT !.pc = "minus g_subsidy_amount",
                                 !.mining_amount = g_mining_amount]
       \/ build' = [build EXCEPT !.pc = "g_mining_amount minus",
                                 !.subsidy = g_subsidy_amount]
    /\ UNCHANGED <<g_difficulty, g_mining_amount, g_subsidy_amount,
                   server_settings, fetched>>

\* the second load, and the subtraction
LoadSecondOperand ==
    /\ \/ /\ build.pc = "minus g_subsidy_amount"
          /\ build' = [build EXCEPT !.pc = "subsidy",
                                    !.keep = build.mining_amount - g_subsidy_amount]
       \/ /\ build.pc = "g_mining_amount minus"
          /\ build' = [build EXCEPT !.pc = "subsidy",
                                    !.keep = g_mining_amount - build.subsidy]
    /\ UNCHANGED <<g_difficulty, g_mining_amount, g_subsidy_amount,
                   server_settings, fetched>>

\* subsidy.amount = g_subsidy_amount;
LoadSubsidyAmount ==
    /\ build.pc = "subsidy"
    /\ build' = [build EXCEPT !.pc = "prefix", !.subsidy = g_subsidy_amount]
    /\ UNCHANGED <<g_difficulty, g_mining_amount, g_subsidy_amount,
                   server_settings, fetched>>

\* std::string prefix = ... to_string(g_difficulty) ...
BuildPrefix ==
    /\ build.pc = "prefix"
    /\ build' = [build EXCEPT !.pc = "search", !.difficulty = g_difficulty,
                              !.preimages = @ + 1]
    /\ UNCHANGED <<g_difficulty, g_mining_amount, g_subsidy_amount,
                   server_settings, fetched>>

\* the nonces of the prefix are used up, or a solution was queued: the next
\* iteration of while (!done)
NextPrefix ==
    /\ build.pc = "search"
    /\ build' = [build EXCEPT !.pc = "keep"]
    /\ UNCHANGED <<g_difficulty, g_mining_amount, g_subsidy_amount,
                   server_settings, fetched>>

Settings(step) ==
    /\ step
    /\ UNCHANGED <<vars, gs, walletvars, peervars, lockvars, amountvars, powvars, hc>>
    /\ UNCHANGED <<g_solutions, g_shutdown, max_difficulty, mpc, search, mined,
                   upc, soln, fetch_settings, settings_due, orphan_log, webcash_log>>

\* ------------------------------------------------ proof of work, the miner
HashBytes == 32              \* uint256

\* case 1: return (*ptr <= 0x7f); ... case 7: return (*ptr <= 0x01);
Thresholds == <<127, 63, 31, 15, 7, 3, 1>>

\* the loop and the switch of check_proof_of_work, ptr the index of *ptr;
\* with no difficulty left no byte is read
RECURSIVE CheckFrom(_, _, _)
CheckFrom(h, ptr, diff) ==
    IF diff >= 8
    THEN IF h[ptr] # 0 THEN FALSE ELSE CheckFrom(h, ptr + 1, diff - 8)
    ELSE IF diff \in 1..7 THEN h[ptr] <= Thresholds[diff]
    ELSE TRUE

\* faulty variant: only the whole bytes of the diff are checked
check_proof_of_work_bytes(h, diff) ==
    CheckFrom(h, 1, diff - (diff % 8))

\* bool check_proof_of_work(const uint256& hash, int diff)
check_proof_of_work(h, diff) == CheckFrom(h, 1, diff)

\* the for loop of get_apparent_difficulty, i the index of the byte read
RECURSIVE ApparentFrom(_, _, _)
ApparentFrom(h, i, n) ==
    IF i > HashBytes THEN n
    ELSE LET c == h[i] IN
         IF c = 0 THEN ApparentFrom(h, i + 1, n + 8)
         ELSE IF c = 1 THEN n + 7
         ELSE IF c <= 3 THEN n + 6
         ELSE IF c <= 7 THEN n + 5
         ELSE IF c <= 15 THEN n + 4
         ELSE IF c <= 31 THEN n + 3
         ELSE IF c <= 63 THEN n + 2
         ELSE IF c <= 127 THEN n + 1
         ELSE n

\* int get_apparent_difficulty(const uint256& hash)
get_apparent_difficulty(h) == ApparentFrom(h, 1, 0)

\* the hashes tried: z zero bytes, then a byte on either side of each
\* threshold, then bytes that are all 0 or all 0xff
PowHashes ==
    {[n \in 1..HashBytes |-> IF n <= z THEN 0 ELSE IF n = z + 1 THEN c ELSE t] :
        z \in 0..HashBytes,
        c \in {1, 2, 3, 4, 7, 8, 15, 16, 31, 32, 63, 64, 127, 128, 255},
        t \in {0, 255}}

\* the difficulties tried on a hash: 0, 256 and every one within a byte of
\* its first non-zero byte
PowDifficulties(h) ==
    LET z == Cardinality({n \in 1..HashBytes : \A m \in 1..n : h[m] = 0}) IN
    {0, 8 * HashBytes} \cup
    {d \in 0..(8 * HashBytes) : d >= 8 * (z - 1) /\ d < 8 * (z + 2)}

NotChecked == [difficulty |-> -1, ok |-> FALSE]

PowIdle ==
    /\ hash = <<>>
    /\ apparent = -1
    /\ pow = NotChecked

\* a caller measures the hash
Measure ==
    /\ apparent = -1
    /\ apparent' = get_apparent_difficulty(hash)
    /\ UNCHANGED <<hash, pow>>

\* a caller checks the hash against a difficulty
Check ==
    /\ pow = NotChecked
    /\ \E d \in PowDifficulties(hash) :
           pow' = [difficulty |-> d, ok |-> check_proof_of_work(hash, d)]
    /\ UNCHANGED <<hash, apparent>>

Pow(step) ==
    /\ step
    /\ UNCHANGED <<vars, gs, clientvars, lockvars, amountvars, hc,
                   settingsvars>>

\* ------------------------------------------- the commit callback, by statement
\* "while each of the following statements are atomic, the combined operation
\* is not.  It is possible for reads to interleave between these statements."
\* For what the request chains read (num_reports, through getStats in
\* RecordMiningReport) ReportSolution as one step loses nothing; for a reader
\* of num_reports and difficulty on another thread the three statements are
\* taken one at a time.

\* ++(webcash::state().num_reports);
ReportSolution_num_reports(r) ==
    /\ pc[r] = "CommitCallback"
    /\ msg[r].kind = "mining_report"
    /\ num_reports' = num_reports + 1
    /\ pc' = [pc EXCEPT ![r] = "CommitCallback_difficulty"]
    /\ UNCHANGED <<dbvars, seqvars, num_replace, num_unspent, difficulty, genesis,
                   clockvars, msg, st, tx, resp>>

\* webcash::state().difficulty.store(next_difficulty);
ReportSolution_difficulty(r) ==
    /\ pc[r] = "CommitCallback_difficulty"
    /\ difficulty' = st[r].next_difficulty
    /\ pc' = [pc EXCEPT ![r] = "CommitCallback_num_unspent"]
    /\ UNCHANGED <<dbvars, seqvars, num_reports, num_replace, num_unspent, genesis,
                   clockvars, msg, st, tx, resp>>

\* webcash::state().num_unspent += state->webcash.size(); ... callback(resp)
ReportSolution_num_unspent(r) ==
    /\ pc[r] = "CommitCallback_num_unspent"
    /\ num_unspent' = num_unspent + Cardinality(st[r].webcash)
    /\ pc' = [pc EXCEPT ![r] = "done"]
    /\ resp' = [resp EXCEPT ![r] = Success(st[r].next_difficulty)]
    /\ st' = [st EXCEPT ![r] = NoState]
    /\ UNCHANGED <<dbvars, seqvars, num_reports, num_replace, difficulty, genesis,
                   clockvars, msg, tx>>

\* ------------------------------------------------ WebcashEconomy::getStats
\* do { stats.num_reports = num_reports.load();
\*      stats.difficulty = difficulty.load();
\* } while (stats.num_reports != num_reports.load());
Readers == 1..MaxReaders

NoStats == [pc |-> "idle", num_reports |-> 0, difficulty |-> 0]

getStats_num_reports(g) ==
    /\ gs[g].pc \in {"idle", "num_reports"}
    /\ gs' = [gs EXCEPT ![g] = [pc |-> "difficulty", num_reports |-> num_reports,
                                difficulty |-> gs[g].difficulty]]
    /\ UNCHANGED <<vars, clientvars, unitvars>>

getStats_difficulty(g) ==
    /\ gs[g].pc = "difficulty"
    /\ gs' = [gs EXCEPT ![g].pc = "while", ![g].difficulty = difficulty]
    /\ UNCHANGED <<vars, clientvars, unitvars>>

getStats_while(g) ==
    /\ gs[g].pc = "while"
    /\ gs' = [gs EXCEPT ![g].pc = IF gs[g].num_reports # num_reports
                                  THEN "num_reports" ELSE "returned"]
    /\ UNCHANGED <<vars, clientvars, unitvars>>

\* ------------------------------------------------------------- the system
\* a step of the server's request chains: the threads of getStats stand still
Server(step) == step /\ UNCHANGED <<gs, clientvars, unitvars>>

ReadersIdle == gs = [g \in Readers |-> NoStats]

\* a step of the miner: the server's own state is not in the picture
Client(step) == step /\ UNCHANGED <<vars, gs, unitvars>>

Next ==
    \E r \in Req :
        \/ Server(V1_replace(r))
        \/ Server(CheckInputsExist(r))
        \/ Server(CheckOutputsDoNotExist(r))
        \/ Server(RecordSpends(r))
        \/ Server(RemoveInputs(r))
        \/ Server(CreateOutputs(r))
        \/ Server(RecordToAuditLog(r))
        \/ Server(RecordToAuditLogInputs(r))
        \/ Server(RecordToAuditLogOutputs(r))
        \/ Server(V1_miningReport(r))
        \/ Server(SelectLastMiningReport(r))
        \/ Server(CheckNewMiningReportPreimage(r))
        \/ Server(CheckOutputsDoNotExist_MiningReport(r))
        \/ Server(CreateOutputs_MiningReport(r))
        \/ Server(RecordMiningReport(r))
        \/ Server(Commit(r))
        \/ Server(ReportReplacement(r))
        \/ Server(ReportSolution(r))

\* the miner and its wallet before the first solution: main has fetched the
\* protocol settings, the wallet is empty
ClientStart ==
    /\ recovery_log = {}
    /\ warned = {}
    /\ secret = {}
    /\ output = {}
    /\ wpc = "idle"
    /\ wins = NoInsert
    /\ changes = 0
    /\ g_solutions = <<>>
    /\ g_difficulty = InitialDifficulty
    /\ g_shutdown = FALSE
    /\ mpc = [t \in Miners |-> "while"]
    /\ search = [t \in Miners |-> 0]
    /\ mined = 0
    /\ upc = "while"
    /\ soln = NoSolution
    /\ fetch_settings = TRUE
    /\ settings_due = FALSE
    /\ orphan_log = {}
    /\ webcash_log = {}
    /\ srv = [reports |-> {}, unspent |-> {}, difficulty |-> InitialDifficulty]
    /\ posted = {}
    /\ post_result = "none"
    /\ accepted = {}

\* nothing but the miner and the server is running
UnitIdle == LockIdle /\ AmountIdle /\ PowIdle /\ hc = NoHealthCheck /\ SettingsStart

ServerInit ==
    /\ Init
    /\ ReadersIdle
    /\ ClientStart
    /\ max_difficulty = maxdifficulty
    /\ UnitIdle

Spec == ServerInit /\ [][Next]_allvars

\* the server with a database whose COMMIT can fail
FaultNext ==
    \/ Next
    \/ \E r \in Req : Server(CommitFails(r))

FaultSpec == ServerInit /\ [][FaultNext]_allvars

\* /api/v1/mining_report with the commit callback taken by statement, and
\* getStats called on other threads meanwhile
StatsNext ==
    \/ \E r \in Req :
        \/ Server(V1_miningReport(r))
        \/ Server(SelectLastMiningReport(r))
        \/ Server(CheckNewMiningReportPreimage(r))
        \/ Server(CheckOutputsDoNotExist_MiningReport(r))
        \/ Server(CreateOutputs_MiningReport(r))
        \/ Server(RecordMiningReport(r))
        \/ Server(Commit(r))
        \/ Server(ReportSolution_num_reports(r))
        \/ Server(ReportSolution_difficulty(r))
        \/ Server(ReportSolution_num_unspent(r))
    \/ \E g \in Readers :
        \/ getStats_num_reports(g)
        \/ getStats_difficulty(g)
        \/ getStats_while(g)

StatsSpec == ServerInit /\ [][StatsNext]_allvars

\* the miner against its server: the mining threads, the submission thread
\* with the wallet it calls, and the raising of the shutdown flag
MinerNext ==
    \/ \E t \in Miners :
        \/ Client(MiningLoop(t))
        \/ Client(FoundSolution(t))
        \/ Client(SearchExhausted(t))
    \/ Client(UpdateLoop)
    \/ Client(Dequeue)
    \/ Client(PostMiningReport)
    \/ Client(Wallet(AddSecretToWallet_log))
    \/ Client(Wallet(AddSecretToWallet_insert))
    \/ Client(Wallet(AddOutputToWallet))
    \/ Client(Wallet(ReplaceWebcash))
    \/ Client(Wallet(ReplaceWebcash_update))
    \/ Client(ClaimCoin)
    \/ Client(Wait)
    \/ Client(RequestShutdown)

\* threads calling one Wallet
WalletNext ==
    \E t \in Callers :
        \/ Caller(CallWallet(t))
        \/ Caller(lock_guard(t))
        \/ Caller(WriteRecoveryLine(t))
        \/ Caller(WriteRow(t))
        \/ Caller(AreTermsAccepted(t))
        \/ Caller(AcceptTerms(t))

WalletInit ==
    /\ Init
    /\ num_reports = 0
    /\ ReadersIdle
    /\ ClientStart
    /\ max_difficulty = maxdifficulty
    /\ LockIdle
    /\ AmountIdle
    /\ PowIdle
    /\ hc = NoHealthCheck
    /\ SettingsStart

WalletSpec == WalletInit /\ [][WalletNext]_allvars

\* amounts printed and read back
AmountNext ==
    \/ Unit(Format)
    \/ Unit(Receive)
    \/ Unit(Parse)

AmountInit ==
    /\ Init
    /\ num_reports = 0
    /\ ReadersIdle
    /\ ClientStart
    /\ max_difficulty = maxdifficulty
    /\ LockIdle
    /\ amt \in Amounts \cup {-1}
    /\ str = <<>>
    /\ parsed = NotParsed
    /\ PowIdle
    /\ hc = NoHealthCheck
    /\ SettingsStart

AmountSpec == AmountInit /\ [][AmountNext]_allvars

\* the candidates of the search: hashes whose first 16 bits are zero
\* (!(*(const uint16_t*)(hashes + k*32))) with up to two bits more or less
\* than the difficulties handed out
SearchHashes ==
    {h \in PowHashes :
        /\ h[1] = 0 /\ h[2] = 0
        /\ get_apparent_difficulty(h) >= InitialDifficulty - 1
        /\ get_apparent_difficulty(h) <= InitialDifficulty + 2}

\* if (check_proof_of_work(hash, g_difficulty)) { ... g_solutions.emplace_back
\* (hash, work, keep); ... break; }: the work is the prefix with its
\* committed difficulty, the search goes on
PushSolution ==
    /\ build.pc = "search"
    /\ \E h \in SearchHashes :
        /\ check_proof_of_work(h, g_difficulty)
        /\ build' = [build EXCEPT !.pushed = @ \cup
                        {[difficulty |-> build.difficulty,
                          bits |-> get_apparent_difficulty(h)]}]
    /\ UNCHANGED <<g_difficulty, g_mining_amount, g_subsidy_amount,
                   server_settings, fetched>>

PowNext ==
    \/ Pow(Measure)
    \/ Pow(Check)

PowInit ==
    /\ Init
    /\ num_reports = 0
    /\ ReadersIdle
    /\ ClientStart
    /\ max_difficulty = maxdifficulty
    /\ LockIdle
    /\ AmountIdle
    /\ hash \in PowHashes
    /\ apparent = -1
    /\ pow = NotChecked
    /\ hc = NoHealthCheck
    /\ SettingsStart

PowSpec == PowInit /\ [][PowNext]_allvars

HealthNext ==
    \/ \E r \in Req :
        \/ Server(V1_replace(r))
        \/ Server(CheckInputsExist(r))
        \/ Server(CheckOutputsDoNotExist(r))
        \/ Server(RecordSpends(r))
        \/ Server(RemoveInputs(r))
        \/ Server(CreateOutputs(r))
        \/ Server(RecordToAuditLog(r))
        \/ Server(RecordToAuditLogInputs(r))
        \/ Server(RecordToAuditLogOutputs(r))
        \/ Server(Commit(r))
        \/ Server(ReportReplacement(r))
    \/ Health(V1_healthCheck)
    \/ Health(CheckUnspentOutputs)
    \/ Health(CheckSpentOutputs)

HealthSpec == ServerInit /\ [][HealthNext]_allvars

\* receipt times of the last loaded report: on schedule, and twice as late
LastReceipts ==
    {(k_look_back_window - 2) * k_target_interval,
     2 * (k_look_back_window - 2) * k_target_interval}

\* the database as loaded one report before the first adjustment, the first
\* report received at genesis and the last one at a later time; the clock
\* stands at the last receipt
BoundaryInit ==
    \E t \in LastReceipts :
        LET n == k_reports_per_interval - 1 IN
        /\ MiningReports = {IF row.id = n THEN [row EXCEPT !.received = t] ELSE row :
                                row \in LoadedReports(n)}
        /\ UnspentOutputs = LoadedUnspent(n)
        /\ SpentHashes = {}
        /\ Replacements = {}
        /\ ReplacementInputs = {}
        /\ ReplacementOutputs = {}
        /\ hidden = [reports |-> n - Cardinality(LoadedReports(n)),
                     replacements |-> 0,
                     unspent |-> 2 * (n - Cardinality(LoadedReports(n)))]
        /\ mr_seq = n
        /\ rp_seq = 0
        /\ num_reports = n
        /\ num_replace = 0
        /\ num_unspent = 2 * (n - Cardinality(LoadedReports(n)))
                         + Cardinality(LoadedUnspent(n))
        /\ difficulty = InitialDifficulty
        /\ genesis = 0
        /\ now = t
        /\ ticks = 0
        /\ pc = [r \in Req |-> "idle"]
        /\ msg = [r \in Req |-> [kind |-> "none"]]
        /\ st = [r \in Req |-> [received |-> 0]]
        /\ tx = [r \in Req |-> NoTx]
        /\ resp = [r \in Req |-> [status |-> "none"]]
        /\ ReadersIdle
        /\ ClientStart
        /\ max_difficulty = maxdifficulty
        /\ UnitIdle

BoundaryNext ==
    \E r \in Req :
        \/ Server(V1_miningReport(r))
        \/ Server(SelectLastMiningReport(r))
        \/ Server(CheckNewMiningReportPreimage(r))
        \/ Server(CheckOutputsDoNotExist_MiningReport(r))
        \/ Server(CreateOutputs_MiningReport(r))
        \/ Server(RecordMiningReport(r))
        \/ Server(Commit(r))
        \/ Server(ReportSolution(r))

BoundarySpec == BoundaryInit /\ [][BoundaryNext]_allvars

SettingsNext ==
    \/ Settings(get_protocol_settings)
    \/ Settings(StoreDifficulty)
    \/ Settings(StoreMiningAmount)
    \/ Settings(StoreSubsidyAmount)
    \/ Settings(LoadFirstOperand)
    \/ Settings(LoadSecondOperand)
    \/ Settings(LoadSubsidyAmount)
    \/ Settings(BuildPrefix)
    \/ Settings(PushSolution)
    \/ Settings(NextPrefix)

\* the miner as main leaves it: the difficulty of the first fetch is stored
SettingsInit ==
    /\ Init
    /\ num_reports = 0
    /\ ReadersIdle
    /\ ClientStart
    /\ g_difficulty = ServerSettings(0).difficulty
    /\ max_difficulty = maxdifficulty
    /\ UnitIdle

SettingsSpec == SettingsInit /\ [][SettingsNext]_allvars

\* the server answers the POST of the mining report
Responded == Client(PostMiningReport) /\ post_result' # "error"

\* the statements of update_thread_func, with a server that is responsive
update_thread_func ==
    \/ Client(UpdateLoop)
    \/ Client(Dequeue)
    \/ Responded
    \/ Client(Wallet(AddSecretToWallet_log))
    \/ Client(Wallet(AddSecretToWallet_insert))
    \/ Client(Wallet(AddOutputToWallet))
    \/ Client(Wallet(ReplaceWebcash))
    \/ Client(Wallet(ReplaceWebcash_update))
    \/ Client(ClaimCoin)
    \/ Client(Wait)

\* the miner as it runs: nothing sets g_shutdown
RunningNext ==
    \/ \E t \in Miners :
        \/ Client(MiningLoop(t))
        \/ Client(FoundSolution(t))
        \/ Client(SearchExhausted(t))
    \/ update_thread_func

RunningInit ==
    /\ Init
    /\ num_reports = 0
    /\ ReadersIdle
    /\ ClientStart
    /\ max_difficulty = maxdifficulty
    /\ UnitIdle

\* The submission thread is a thread of its own and is scheduled; its HTTP
\* calls return and wait_until returns at its deadline at the latest: a
\* statement of the thread that can be taken is taken.
RunningSpec ==
    /\ RunningInit
    /\ [][RunningNext]_allvars
    /\ WF_allvars(update_thread_func)

MinerInit ==
    /\ Init
    /\ num_reports = 0
    /\ ReadersIdle
    /\ ClientStart
    /\ max_difficulty \in {InitialDifficulty, maxdifficulty}
    /\ UnitIdle

MinerSpec == MinerInit /\ [][MinerNext]_allvars


\* ============================================================== the claims
InputsOf(r)  == parse_secret_webcashes(msg[r].webcashes).webcash
OutputsOf(r) == parse_secret_webcashes(msg[r].new_webcashes).webcash

Succeeded(r) == pc[r] = "done" /\ resp[r].status = "success"
Failed(r)    == pc[r] = "done" /\ resp[r].status = "error"

\* the step in which r's transaction commits
Commits(r, kind) ==
    /\ pc[r] = "Commit"
    /\ pc'[r] = "CommitCallback"
    /\ msg[r].kind = kind

\* C1: of two /replace requests that name a common input, at most one
\* returns success, unless a replacement created that input again in
\* between; the other is answered "input(s) not found".
C1_OverlappingReplacesOneWins ==
    \A r, q \in Req :
        (/\ r # q
         /\ msg[r].kind = "replace" /\ msg[q].kind = "replace"
         /\ Succeeded(r) /\ Succeeded(q))
        => (HashesOf(InputsOf(r)) \cap HashesOf(InputsOf(q)))
               \subseteq HashesOf(ReplacementOutputs)

\* C2: the commit of a /replace leaves the sum of the amounts in
\* UnspentOutputs as it was and changes the number of rows by
\* |outputs| - |inputs|.
C2_ReplaceConservesValue ==
    [][\A r \in Req :
        Commits(r, "replace") =>
            /\ SumAmounts(UnspentOutputs') = SumAmounts(UnspentOutputs)
            /\ Cardinality(UnspentOutputs') =
                   Cardinality(UnspentOutputs) + Cardinality(st[r].outputs)
                                               - Cardinality(st[r].inputs)]_vars

\* C3: in every committed state no hash is both in UnspentOutputs and in
\* SpentHashes.
C3_UnspentAndSpentDisjoint ==
    HashesOf(UnspentOutputs) \cap SpentHashes = {}

\* C4: the report that commits when i reports exist carries
\* sum(webcash) = getMiningAmount(i) and sum(subsidy) = getSubsidyAmount(i),
\* also for i >= k_reports_per_epoch.
C4_IssuanceFollowsSchedule ==
    [][\A r \in Req :
        Commits(r, "mining_report") =>
            /\ SumAmounts(st[r].webcash) = getMiningAmount(CountReports)
            /\ SumAmounts(st[r].subsidy) = getSubsidyAmount(CountReports)]_vars

PrecedingReport(i) ==
    CHOOSE row \in MiningReports :
        /\ row.id < i
        /\ \A o \in MiningReports : o.id < i => o.id <= row.id

\* C6: a report commits only if its hash has at least max(25, D) leading
\* zero bits and its committed difficulty, if any, is at least D, where D
\* is the next_difficulty of the row preceding the new one (28 for the
\* first row).
C6_MeetsDifficultyAtCommit ==
    [][\A r \in Req :
        Commits(r, "mining_report") =>
            \A new \in tx[r].ins_reports :
                LET D == IF \E row \in MiningReports : row.id < new.id
                         THEN PrecedingReport(new.id).next_difficulty
                         ELSE InitialDifficulty
                IN  /\ st[r].bits >= Max(DoSFloor, D)
                    /\ st[r].has_difficulty => st[r].difficulty >= D]_vars

\* the commit of r brings in all that the request asked for, and nothing
\* else changes
WholeWriteSet(r) ==
    IF msg[r].kind = "replace"
    THEN /\ st[r].outputs \subseteq UnspentOutputs'
         /\ UnspentOutputs' \subseteq UnspentOutputs \cup st[r].outputs
         /\ \A u \in UnspentOutputs \ UnspentOutputs' :
                u.hash \in HashesOf(st[r].inputs)
         /\ HashesOf(st[r].inputs) \subseteq SpentHashes'
         /\ SpentHashes \subseteq SpentHashes'
         /\ SpentHashes' \subseteq SpentHashes \cup HashesOf(st[r].inputs)
         /\ Replacements' \ Replacements =
                {[id |-> st[r].replacement_id, received |-> st[r].received]}
         /\ ReplacementInputs' \ ReplacementInputs =
                AuditRows(st[r].replacement_id, st[r].inputs)
         /\ ReplacementOutputs' \ ReplacementOutputs =
                AuditRows(st[r].replacement_id, st[r].outputs)
         /\ Replacements \subseteq Replacements'
         /\ ReplacementInputs \subseteq ReplacementInputs'
         /\ ReplacementOutputs \subseteq ReplacementOutputs'
         /\ UNCHANGED MiningReports
    ELSE /\ UnspentOutputs' = UnspentOutputs \cup st[r].webcash
         /\ Cardinality(MiningReports' \ MiningReports) = 1
         /\ MiningReports \subseteq MiningReports'
         /\ \A row \in MiningReports' \ MiningReports :
                row.preimage = st[r].preimage
         /\ UNCHANGED <<SpentHashes, Replacements, ReplacementInputs,
                        ReplacementOutputs>>

\* C7: a request is all-or-nothing.  The step that answers a request with
\* an error changes no table and no cached counter, and that request has
\* not committed; the tables change only in the commit of one request, which
\* brings in all of that request's writes at once; the cached counters
\* change only when a committed request is answered with success.
C7_AllOrNothing ==
    [][/\ \A r \in Req :
            (resp'[r].status = "error" /\ resp[r].status # "error")
            => /\ UNCHANGED <<dbvars, cachevars>>
               /\ pc[r] \notin {"Commit", "CommitCallback"}
       /\ dbvars' # dbvars
            => \E r \in Req : Commits(r, msg[r].kind) /\ WholeWriteSet(r)
       /\ cachevars' # cachevars
            => \E r \in Req : pc[r] = "CommitCallback"
                              /\ resp'[r].status = "success"]_vars

\* a /replace fails on its INSERT of outputs, after its spends and deletes
\* were executed: the inputs are unspent as before
C7_FailedAfterWrites ==
    \E r \in Req :
        /\ msg[r].kind = "replace"
        /\ Failed(r)
        /\ resp[r].error = "sql error"
        /\ \E w \in InputsOf(r) : w \in UnspentOutputs /\ w.hash \notin SpentHashes

\* C8: a /replace that names the hash of one of its own inputs as an output
\* is never accepted.
C8_OwnInputAsOutputRejected ==
    \A r \in Req :
        (/\ msg[r].kind = "replace"
         /\ HashesOf(InputsOf(r)) \cap HashesOf(OutputsOf(r)) # {})
        => /\ pc[r] \notin {"Commit", "CommitCallback"}
           /\ ~Succeeded(r)

\* The check of the outputs by itself: a /replace that reaches it while one
\* of their hashes is in UnspentOutputs is answered "output(s) already exists"
\* and changes neither the tables nor the counters.
C8_ExistingOutputRejected ==
    [][\A r \in Req :
            (/\ pc[r] = "CheckOutputsDoNotExist"
             /\ pc'[r] # pc[r]
             /\ HashesOf(st[r].outputs) \cap HashesOf(UnspentOutputs) # {})
            => /\ resp'[r] = JSONRPCError("output(s) already exists")
               /\ UNCHANGED <<dbvars, cachevars>>]_vars

\* a request naming one of its inputs as an output was turned down, and the
\* same inputs were then replaced by a fresh output
C8_RejectedThenReplaced ==
    \E r, q \in Req :
        /\ msg[r].kind = "replace" /\ msg[q].kind = "replace"
        /\ Failed(r) /\ resp[r].error = "output(s) already exists"
        /\ HashesOf(InputsOf(r)) \cap HashesOf(OutputsOf(r)) # {}
        /\ Succeeded(q)
        /\ InputsOf(q) = InputsOf(r)
        /\ num_replace = 1

\* the sum of the amounts of a JSON array, in the integers
RECURSIVE SeqSum(_)
SeqSum(items) ==
    IF items = <<>> THEN 0 ELSE Head(items).amount + SeqSum(Tail(items))

BadArray(a) ==
    \/ a.kind # "array"
    \/ \E i \in DOMAIN a.items : ~a.items[i].ok \/ a.items[i].amount < 1
    \/ \E i, j \in DOMAIN a.items : i # j /\ a.items[i].hash = a.items[j].hash
    \/ SeqSum(a.items) > AmountMax

FailsValidation(m) ==
    \/ ~m.legalese
    \/ BadArray(m.webcashes)
    \/ BadArray(m.new_webcashes)
    \/ SeqSum(m.webcashes.items) # SeqSum(m.new_webcashes.items)

\* C9: a /replace that fails a validation (terms not accepted, an array that
\* is missing, does not parse or names a hash twice, an amount < 1, a sum
\* beyond the largest Amount, sum(inputs) # sum(outputs)) is answered with
\* an error in the step that receives it, with no transaction opened; if the
\* terms are not accepted the error is "didn't accept terms".
C9_RejectedBeforeDatabase ==
    [][\A r \in Req :
        (/\ pc[r] = "idle"
         /\ pc'[r] # "idle"
         /\ msg'[r].kind = "replace"
         /\ FailsValidation(msg'[r]))
        => /\ pc'[r] = "done"
           /\ resp'[r].status = "error"
           /\ ~tx'[r].open
           /\ UNCHANGED <<dbvars, seqvars, cachevars>>
           /\ ~msg'[r].legalese => resp'[r].error = "didn't accept terms"]_vars

\* a request whose amounts are all positive and whose sum is beyond the
\* largest Amount was answered "overflow"
C9_OverflowRejected ==
    \E r \in Req :
        /\ msg[r].kind = "replace"
        /\ Failed(r)
        /\ resp[r].error = "overflow"
        /\ \A i \in DOMAIN msg[r].webcashes.items :
               msg[r].webcashes.items[i].amount >= 1
        /\ SeqSum(msg[r].webcashes.items) > AmountMax

C11_CachesAgreeWhenQuiescent ==
    InFlight = {}
    => /\ num_reports = CountReports
       /\ num_replace = CountReplacements
       /\ num_unspent = CountUnspent
       /\ MiningReports # {} => difficulty = LastMiningReport.next_difficulty

\* C13: once the first mining report of an empty ledger is accepted, the
\* cached genesis is that report's time of receipt, and getStats(genesis)
\* gives an expected circulation of 0 and, while it is the only report, a
\* total circulation of one mining amount.
C13_GenesisIsFirstReceipt ==
    \A r \in Req :
        (/\ msg[r].kind = "mining_report"
         /\ Succeeded(r)
         /\ hidden.reports = 0)
        => \A row \in MiningReports :
               (row.id = 1 /\ row.preimage = msg[r].preimage.id)
               => /\ genesis = row.received
                  /\ getStats(genesis).expected_circulation = 0
                  /\ num_reports = 1
                     => getStats(genesis).total_circulation
                            = k_initial_mining_amount

\* the n-th report of the ledger, counted in the order of the row ids
Rank(row) == hidden.reports + Cardinality({o \in MiningReports : o.id <= row.id})

\* the difficulty in force when the ledger holds exactly n reports
InForce(n) ==
    IF \E row \in MiningReports : Rank(row) = n
    THEN (CHOOSE row \in MiningReports : Rank(row) = n).next_difficulty
    ELSE InitialDifficulty

\* C12: getStats returns a num_reports and a difficulty that belong together:
\* the difficulty returned is the one in force when the ledger had exactly
\* the returned number of reports.
C12_StatsPairCoherent ==
    \A g \in Readers :
        gs[g].pc = "returned" => gs[g].difficulty = InForce(gs[g].num_reports)

\* the line of the recovery log, the row of 'output' for a secret
Logged(sk, amount) ==
    \E line \in recovery_log : line.secret = sk /\ line.amount = amount

OutputRow(sk, amount, spent) ==
    \E row \in output :
        /\ row.hash = PublicWebcash(sk, amount)
        /\ row.amount = amount
        /\ row.spent = spent

InsertReturned(b) == wpc = "returned" /\ wins.ret = b

\* C14: whenever Wallet::Insert(sec) has returned true, sec and a change
\* secret of the same amount are in the recovery log, the output row of sec
\* is marked spent and the change has an unspent output row of that amount
C14_InsertSweeps ==
    InsertReturned(TRUE) =>
        /\ Logged(wins.sk, wins.amount)
        /\ Logged(wins.change, wins.amount)
        /\ OutputRow(wins.sk, wins.amount, TRUE)
        /\ OutputRow(wins.change, wins.amount, FALSE)

\* the part of C14 that does not rest on the UPDATE of 'output'
C14_InsertSweepsButSpent ==
    InsertReturned(TRUE) =>
        /\ Logged(wins.sk, wins.amount)
        /\ Logged(wins.change, wins.amount)
        /\ \E row \in output : row.hash = PublicWebcash(wins.sk, wins.amount)
        /\ OutputRow(wins.change, wins.amount, FALSE)

InLog(sk) == \E line \in recovery_log : line.secret = sk

RecordedThenOrphaned == \E s \in orphan_log : s.id \in srv.reports

OrphanIds == {s.id : s \in orphan_log}

\* the solution the submission thread has taken and not yet POSTed, then the
\* queue: what is still to be sent, in the order it will be sent
ToSend == (IF upc = "post" THEN <<soln>> ELSE <<>>) \o g_solutions

\* C17: solutions are numbered as they are enqueued.  A solution is POSTed
\* only when every solution enqueued before it was POSTed or went to the
\* orphan log, and what is still to be sent is in the order of enqueueing,
\* also after a POST without answer put its solution back
C17_SentInQueueOrder ==
    /\ \A b \in posted : \A a \in 1..(b - 1) : a \in posted \cup OrphanIds
    /\ \A i, j \in DOMAIN ToSend : i < j => ToSend[i].id < ToSend[j].id

\* the first solution got no answer and is back in front of the second
C17_BackInFront ==
    /\ Len(g_solutions) = 2
    /\ g_solutions[1].id \in posted
    /\ g_solutions[2].id \notin posted

QueueIds(q) == {q[i].id : i \in DOMAIN q}

\* C18: when the POST of a solution brings no HTTP response, the solution is
\* back at the front of the queue, nothing is written to the orphan log or
\* the webcash log, the wallet is not called, and the thread leaves the queue
\* alone until it has waited; no other step puts a solution back
C18_NoResponseRequeues ==
    [][/\ (upc = "post" /\ post_result' = "error") =>
            /\ g_solutions' = <<soln>> \o g_solutions
            /\ orphan_log' = orphan_log
            /\ webcash_log' = webcash_log
            /\ UNCHANGED walletvars
            /\ upc' = "wait"
       /\ (\E id \in QueueIds(g_solutions') \ QueueIds(g_solutions) : id <= mined) =>
            /\ upc = "post"
            /\ post_result' = "error"
      ]_allvars

\* a POST brought no response while another solution was waiting behind
C18_PutBack ==
    /\ post_result = "error"
    /\ upc = "wait"
    /\ Len(g_solutions) = 2
    /\ g_solutions[1].id \in posted
    /\ g_solutions[1] \notin orphan_log
    /\ wpc = "idle"

\* the submission thread is about to take a solution below the cached
\* difficulty from the front of the queue
StaleAtFront ==
    /\ upc = "drain"
    /\ g_solutions # <<>>
    /\ Head(g_solutions).bits < g_difficulty

\* C19: a solution taken from the front of the queue whose apparent
\* difficulty is below the cached difficulty goes to the orphan log and is
\* dropped: the thread does not POST it, does not call the wallet and turns
\* to the next one; and a solution of the
\* orphan log is never again in the queue, in the thread's hand or in the
\* wallet's
C19_StaleDropped ==
    [][/\ (StaleAtFront /\ g_solutions' = Tail(g_solutions)) =>
            /\ orphan_log' = orphan_log \cup {Head(g_solutions)}
            /\ posted' = posted
            /\ upc' = "drain"
            /\ soln' = NoSolution
            /\ UNCHANGED walletvars
       /\ \A s \in orphan_log' :
            /\ s.id \notin QueueIds(g_solutions')
            /\ s.id # soln'.id
      ]_allvars

\* a stale solution that was never POSTed is in the orphan log, and the
\* thread has gone on to the rest of the queue
C19_StaleInOrphanLog ==
    /\ \E s \in orphan_log : s.id \notin posted /\ s.bits < g_difficulty
    /\ upc = "wait"

\* C20: once the shutdown flag is set, a mining thread that comes to the top
\* of its outer loop leaves the loop
C20_MiningThreadsExit ==
    [][\A t \in Miners :
        (g_shutdown /\ mpc[t] = "while" /\ mpc'[t] # mpc[t]) => mpc'[t] = "exited"
      ]_allvars

\* whatever the flag says, a mining thread is in its loop
MiningThreadsStay == \A t \in Miners : mpc[t] \in {"while", "search"}

\* C21: the submission thread leaves its loop on the shutdown flag only when
\* no solution is left in the queue
C21_ExitsDrained ==
    [][(upc # "exited" /\ upc' = "exited") => g_solutions = <<>>]_allvars

\* the thread is between the first and the last write of a wallet operation
Writing(t) == wt[t].pc \in {"bak", "sqlite3_step", "INSERT INTO 'terms'"}

\* C22: a thread that is writing to the wallet database or the recovery log
\* holds m_mut, so at most one thread is writing at a time
C22_WritesHoldMutex ==
    /\ \A t \in Callers : Writing(t) => m_mut = t
    /\ Cardinality({t \in Callers : Writing(t)}) <= 1

\* the part of C22 that holds: the operations other than AcceptTerms
LockedWritesHoldMutex ==
    \A t \in Callers : wt[t].pc \in {"bak", "sqlite3_step"} => m_mut = t

\* two threads accepted the same terms at once: the second INSERT threw
TermsInsertedTwice == \E t \in Callers : wt[t].pc = "runtime_error"

\* C23: for a non-negative amount a, Amount::parse(to_string(a)) succeeds and
\* yields a, and to_string(a) is in canonical form: digits, then nothing or a
\* point and one to eight digits of which the last is not 0
Canonical(s) ==
    \E n \in 1..Len(s) :
        /\ \A k \in 1..n : isdigit(s[k])
        /\ n > 1 => s[1] # "0"
        /\ \/ n = Len(s)
           \/ /\ s[n + 1] = "."
              /\ Len(s) - (n + 1) \in 1..FractionDigits
              /\ \A k \in (n + 2)..Len(s) : isdigit(s[k])
              /\ s[Len(s)] # "0"

C23_ParseInvertsToString ==
    /\ (amt >= 0 /\ str # <<>>) => Canonical(str)
    /\ (amt >= 0 /\ parsed.called) => parsed.ok /\ parsed.i64 = amt

\* 0.0000003 has been printed with its zeros and read back
C23_SmallFractionRead ==
    /\ amt = 30
    /\ str = <<"0", ".", "0", "0", "0", "0", "0", "0", "3">>
    /\ parsed.called

\* the strings of TEST(amount, parase) come out as the test expects
ParseAgreesWithTests ==
    (amt = -1 /\ parsed.called) =>
        /\ str = <<"\"", "0", ".", "1", "\"">> => parsed.ok /\ parsed.i64 = 10000000
        /\ str = <<"3", ".", "0">> => parsed.ok /\ parsed.i64 = 300000000
        /\ str \in OtherStrings \ {<<"\"", "0", ".", "1", "\"">>, <<"3", ".", "0">>}
              => ~parsed.ok

\* bit k of a hash, counted from the first bit of the first byte: bit
\* 7 - (k % 8) of byte k \div 8
Bit(h, k) == (h[(k \div 8) + 1] \div (2 ^ (7 - (k % 8)))) % 2

\* n is the number of leading zero bits of the hash: the first n bits are
\* zero and the next one, if there is one, is set
LeadingZeroBits(h, n) ==
    /\ \A k \in 0..(n - 1) : Bit(h, k) = 0
    /\ n < 8 * HashBytes => Bit(h, n) = 1

\* C24: get_apparent_difficulty(hash) is the number of leading zero bits of
\* the hash; check_proof_of_work(hash, d) is true exactly when
\* get_apparent_difficulty(hash) >= d, for every d in 0..256; so a hash that
\* meets d meets every d' <= d (stated by steps of one: meeting d + 1 implies
\* meeting d).
C24_CheckIsApparentAtLeast ==
    /\ apparent # -1 => LeadingZeroBits(hash, apparent)
    /\ pow # NotChecked =>
           (pow.ok <=> get_apparent_difficulty(hash) >= pow.difficulty)
    /\ (hash # <<>> /\ apparent = -1 /\ pow = NotChecked) =>
           \A d \in 0..(8 * HashBytes) :
               /\ check_proof_of_work(hash, d) <=> get_apparent_difficulty(hash) >= d
               /\ (d > 0 /\ check_proof_of_work(hash, d))
                      => check_proof_of_work(hash, d - 1)

\* C24 witness: a hash of 13 leading zero bits was measured and met
\* difficulty 13, one whole byte and five bits.
C24_MetWithinByte ==
    /\ apparent = 13
    /\ pow = [difficulty |-> 13, ok |-> TRUE]

\* the hashes that have been created, as the committed tables show them: an
\* output leaves UnspentOutputs only in a commit that stores its hash in
\* SpentHashes
Created == HashesOf(UnspentOutputs) \cup SpentHashes

\* C25: per queried hash, /health_check answers spent=false with the stored
\* amount for an unspent hash, spent=true for a hash that is not unspent and
\* was spent by a committed replace, spent=null only for a hash that was
\* never created; a hash that was already spent is never answered with null.
\* The answer is judged against the tables as they were when the request
\* was received and as they are when it is answered.
C25_HealthCheckAnswers ==
    hc.pc = "done" =>
        /\ hc.status.spent = "false" =>
               /\ hc.arg \in Created
               /\ \E u \in hc.unspent : u.hash = hc.arg /\ u.amount = hc.status.amount
        /\ hc.status.spent = "true" => (hc.unspent = {} /\ hc.arg \in SpentHashes)
        /\ hc.status.spent = "null" =>
               (hc.before.unspent = {} /\ hc.before.spent = {})
        /\ (hc.before.unspent # {} /\ hc.arg \notin SpentHashes) =>
               /\ hc.status.spent = "false"
               /\ \E u \in hc.before.unspent : u.amount = hc.status.amount
        /\ hc.before.spent # {} => hc.status.spent \in {"true", "false"}
        /\ hc.arg \notin Created => hc.status.spent = "null"

\* C25 witness: a hash that was unspent when the request was received was
\* spent by a replace before the first query ran, and is answered spent=true.
C25_SpentMeanwhile ==
    /\ hc.pc = "done"
    /\ hc.before.unspent # {}
    /\ hc.status.spent = "true"

\* a hash created while the request was open may still be answered with
\* null: the answer is as of the queries, not as of the response
NullForHashCreatedMeanwhile ==
    /\ hc.pc = "done"
    /\ hc.status.spent = "null"
    /\ hc.arg \in Created

\* C26: the next_difficulty of a recorded report differs from its difficulty
\* only when the report is the 128*k-th accepted report, and then by +1 or
\* by -1; on every other report the two are equal.
C26_AdjustsOnlyAtInterval ==
    \A row \in MiningReports :
        row.next_difficulty # row.difficulty =>
            /\ Rank(row) % k_reports_per_interval = 0
            /\ row.next_difficulty \in {row.difficulty + 1, row.difficulty - 1}

\* the report that lies the look-back window before the n-th report: 127
\* reports earlier for report 128, 128 earlier for the later boundaries (the
\* loaded reports are numbered by their ids)
LookBack(n) ==
    LET window == IF n = k_look_back_window THEN k_look_back_window - 1
                  ELSE k_look_back_window
    IN  CHOOSE row \in MiningReports : row.id = n - window

\* C27: at an adjustment boundary the duration compared with the expected
\* LOOK_BACK_WINDOW * 10 s is the time between the receipt of the current
\* report and the receipt of the report LOOK_BACK_WINDOW reports earlier
\* (127 earlier for report 128), not the gap to the preceding report.
C27_ActualIsLookBack ==
    [][\A r \in Req :
          (/\ pc[r] = "CreateOutputs_MiningReport"
           /\ pc'[r] = "RecordMiningReport"
           /\ (num_reports + 1) % k_reports_per_interval = 0)
          => st'[r].next_difficulty =
                 NextDifficulty(st[r].current_difficulty, st[r].received,
                                LookBack(num_reports + 1).received)]_allvars

\* the sum over i < n of getMiningAmount(i), one epoch at a time from epoch e
\* on: all reports of an epoch are paid the same amount
RECURSIVE SumOfMiningAmounts(_, _)
SumOfMiningAmounts(e, n) ==
    IF n <= e * k_reports_per_epoch THEN 0
    ELSE LET last == IF n < (e + 1) * k_reports_per_epoch THEN n
                     ELSE (e + 1) * k_reports_per_epoch
         IN  (last - e * k_reports_per_epoch) * getMiningAmount(e * k_reports_per_epoch)
             + SumOfMiningAmounts(e + 1, n)

\* C28: getStats(now).total_circulation is the sum over i < num_reports of
\* getMiningAmount(i), with the amount halved in each successive epoch, also
\* at and beyond REPORTS_PER_EPOCH reports; expected_circulation is the same
\* sum taken up to floor((now - genesis) / 10 s).
C28_CirculationIsSum ==
    /\ getStats(now).total_circulation = SumOfMiningAmounts(0, num_reports)
    /\ getStats(now).expected_circulation =
           SumOfMiningAmounts(0, (now - genesis) \div k_target_interval)

\* up to REPORTS_PER_EPOCH reports, that number included, the two agree
CirculationIsSumInFirstEpoch ==
    num_reports <= k_reports_per_epoch =>
        getStats(now).total_circulation = SumOfMiningAmounts(0, num_reports)

\* C29: a dequeued solution is appended to the orphan log exactly when it is
\* stale or the server answers with a non-200 status other than the benign
\* 400 ("Didn't use a new secret value."); it is not logged on that 400, on
\* 200 or on a transport failure; a non-benign rejection also makes the next
\* settings fetch due at once.
C29_OrphanedExactlyWhenStaleOrRejected ==
    [][/\ orphan_log' # orphan_log =>
              \/ StaleAtFront /\ g_solutions' = Tail(g_solutions)
              \/ upc = "post" /\ post_result' = "500"
       /\ (StaleAtFront /\ g_solutions' = Tail(g_solutions)) =>
              orphan_log' = orphan_log \cup {Head(g_solutions)}
       /\ (upc = "post" /\ post_result' = "500") =>
              /\ orphan_log' = orphan_log \cup {soln}
              /\ settings_due'
       /\ (upc = "post" /\ post_result' \in {"200", "400", "error"}) =>
              orphan_log' = orphan_log]_allvars

\* C29 witness: the server has just rejected a solution with a non-benign
\* status; it is in the orphan log and the settings fetch is due.
C29_RejectedAndDue ==
    /\ post_result = "500"
    /\ upc = "drain"
    /\ settings_due
    /\ \E s \in orphan_log : s.id \in posted /\ s \notin accepted

\* C30: the (difficulty, mining_amount, subsidy_amount) a mining thread uses
\* for one preimage is a snapshot of one settings update: keep.amount +
\* subsidy.amount is the mining_amount of the update that supplied the
\* subsidy amount, in every interleaving with the update thread's stores.
C30_AmountsOfOneUpdate ==
    build.pc = "search" =>
        \E k \in 0..MaxFetches :
            /\ build.subsidy = ServerSettings(k).subsidy_amount
            /\ build.keep + build.subsidy = ServerSettings(k).mining_amount

\* the difficulty written into the preimage belongs to the same update as
\* the two amounts
TripleOfOneUpdate ==
    build.pc = "search" =>
        \E k \in 0..MaxFetches :
            /\ build.subsidy = ServerSettings(k).subsidy_amount
            /\ build.keep + build.subsidy = ServerSettings(k).mining_amount
            /\ build.difficulty = ServerSettings(k).difficulty

\* C31: after a mining thread pushes a solution it draws new keep and
\* subsidy secrets before it tests another candidate, so no two pushed
\* solutions carry the same keep secret.
C31_KeepSecretsDistinct ==
    \A i, j \in DOMAIN g_solutions :
        i # j => g_solutions[i].webcash # g_solutions[j].webcash

\* the three earlier steps of the running Wallet::Insert are done: the
\* incoming secret and the change secret are in the recovery log and in
\* 'secret', and the incoming secret has its unspent row in 'output'
WrittenBeforeReplace ==
    /\ Logged(wins.sk, wins.amount)
    /\ \E row \in secret : row.id = wins.secret_id /\ row.secret = wins.sk /\ row.sweep
    /\ \E row \in output :
           /\ row.id = wins.output_id
           /\ row.secret_id = wins.secret_id
           /\ row.hash = PublicWebcash(wins.sk, wins.amount)
           /\ ~row.spent
    /\ Logged(wins.change, wins.amount)
    /\ \E row \in secret :
           /\ row.id = wins.change_id
           /\ row.secret = wins.change
           /\ row.mine
           /\ ~row.sweep

Stranded(sk) ==
    \E row \in secret :
        /\ row.secret = sk
        /\ row.sweep
        /\ \E o \in output : o.secret_id = row.id /\ ~o.spent

\* C33: a sweep that failed at the server /replace leaves the secret row and
\* the unspent output row in the database, and a later Insert of the same
\* secret can go on past the INSERT INTO 'secret' towards the replacement.
C33_ReplayCompletes ==
    (/\ upc = "Insert"
     /\ wpc = "AddSecretToWallet_insert"
     /\ wins.call = "sk"
     /\ wins.result
     /\ Stranded(wins.sk))
        => ENABLED (AddSecretToWallet_insert /\ wpc' = "AddOutputToWallet")

\* the first Insert of a secret can go on past the INSERT INTO 'secret'
FirstInsertProceeds ==
    (/\ upc = "Insert"
     /\ wpc = "AddSecretToWallet_insert"
     /\ wins.call = "sk"
     /\ wins.result
     /\ ~\E row \in secret : row.secret = wins.sk)
        => ENABLED (AddSecretToWallet_insert /\ wpc' = "AddOutputToWallet")

\* what the failed sweep leaves behind: Insert returned false after the call
\* of ReplaceWebcash, the rows are there and the output is unspent
FailedSweepKeepsRows ==
    (/\ wpc = "returned"
     /\ ~wins.ret
     /\ wins.change_id # 0
     /\ wins.output_id # 0
     /\ \A o \in output : o.secret_id # wins.change_id)
        => Stranded(wins.sk) \/ \E o \in output : o.id = wins.output_id /\ o.spent

\* request r passes on the ledger L when it is the only one
ValidAlone(r, L) ==
    /\ msg[r].kind = "replace"
    /\ ReplaceValidation(msg[r]) = ""
    /\ InputsOf(r) # {}
    /\ InputsOf(r) \subseteq L
    /\ HashesOf(OutputsOf(r)) \cap HashesOf(L) = {}

\* the ledger L after the replacement of request r
Applied(L, r) ==
    {u \in L : u.hash \notin HashesOf(InputsOf(r))} \cup OutputsOf(r)

\* two requests with disjoint inputs and disjoint outputs, each valid on the
\* loaded ledger (no mining report runs beside them: mr_seq is the number of
\* loaded reports)
DisjointPair ==
    /\ ValidAlone(1, LoadedUnspent(mr_seq))
    /\ ValidAlone(2, LoadedUnspent(mr_seq))
    /\ HashesOf(InputsOf(1)) \cap HashesOf(InputsOf(2)) = {}
    /\ HashesOf(OutputsOf(1)) \cap HashesOf(OutputsOf(2)) = {}

\* C34: two /replace requests with disjoint inputs and disjoint outputs, each
\* valid on its own, both answer success whatever the interleaving, and the
\* ledger they leave is the one of applying them one after the other, in
\* either order.
C34_DisjointReplacesCommute ==
    DisjointPair =>
        LET L == LoadedUnspent(mr_seq) IN
        /\ \A r \in Req : resp[r].status # "error"
        /\ (pc[1] = "done" /\ pc[2] = "done") =>
            /\ resp[1].status = "success" /\ resp[2].status = "success"
            /\ UnspentOutputs = Applied(Applied(L, 1), 2)
            /\ UnspentOutputs = Applied(Applied(L, 2), 1)
            /\ SpentHashes = HashesOf(InputsOf(1)) \cup HashesOf(InputsOf(2))
            /\ Cardinality(Replacements) = 2

\* both are through, and the request that came second wrote its audit row
\* first: the two transactions were open at the same time
C34_Interleaved ==
    /\ DisjointPair
    /\ pc[1] = "done" /\ pc[2] = "done"
    /\ \E row \in ReplacementInputs :
        row.replacement_id = 1 /\ row.hash \in HashesOf(InputsOf(2))

\* the amount grammar: an optional '-', the integer part (0, or digits of
\* which the first is not 0), then nothing or a point and one to eight digits
InAmountGrammar(s) ==
    LET first == IF s # <<>> /\ s[1] = "-" THEN 2 ELSE 1 IN
    \E n \in first..Len(s) :
        /\ \A k \in first..n : isdigit(s[k])
        /\ n > first => s[first] # "0"
        /\ \/ n = Len(s)
           \/ /\ s[n + 1] = "."
              /\ Len(s) - (n + 1) \in 1..FractionDigits
              /\ \A k \in (n + 2)..Len(s) : isdigit(s[k])

\* the grammar with the optional enclosing pair of quotes
InQuotedAmountGrammar(s) ==
    \/ InAmountGrammar(s)
    \/ /\ Len(s) >= 2
       /\ s[1] = "\"" /\ s[Len(s)] = "\""
       /\ InAmountGrammar(SubSeq(s, 2, Len(s) - 1))

\* C35: Amount::parse accepts exactly the strings of the amount grammar
\* (optional enclosing quote pair, optional '-', integer part without
\* superfluous leading zeros, optional '.' with 1 to 8 digits) and rejects
\* everything else, characters after the closing quote among it.
C35_ParseAcceptsExactlyGrammar ==
    parsed.called => (parsed.ok <=> InQuotedAmountGrammar(str))

\* what is accepted is of the grammar once the text after the last quote of
\* a quoted string is cut off
AcceptedUpToLastQuote ==
    parsed.called =>
        (parsed.ok <=>
            /\ \A k \in 1..Len(str) : str[k] # NUL
            /\ IF str[1] = "\""
               THEN \E e \in 2..Len(str) :
                       /\ str[e] = "\""
                       /\ \A k \in (e + 1)..Len(str) : str[k] # "\""
                       /\ InAmountGrammar(SubSeq(str, 2, e - 1))
               ELSE InAmountGrammar(str))

\* C36: the submission worker calls Wallet::Insert for a solution only if the
\* server answered its mining report with status 200; a solution answered
\* with the benign 400 is not orphan-logged, not inserted into the wallet and
\* not written to the webcash log.
C36_InsertOnlyAfter200 ==
    [][/\ (upc # "Insert" /\ upc' = "Insert") => post_result' = "200"
       /\ (upc = "post" /\ post_result' = "400") =>
            /\ orphan_log' = orphan_log
            /\ wpc' = "idle"
            /\ secret' = secret]_allvars

\* the solution answered with 400 is not orphan-logged
BenignNotOrphaned ==
    [][(upc = "post" /\ post_result' = "400") => orphan_log' = orphan_log]_allvars

\* C37: every solution a mining thread pushes has a hash whose leading-zero
\* bit count is at least the difficulty committed in its own preimage, also
\* when the update thread changes the cached difficulty during the search.
C37_PushedMeetsCommitted ==
    \A s \in build.pushed : s.bits >= s.difficulty

\* every pushed solution met the cached difficulty, which was at least the
\* lowest the server handed out
PushedMeetsLowest ==
    \A s \in build.pushed : s.bits >= InitialDifficulty

\* the rows of request r's transaction are in the committed tables
Committed(r) ==
    IF msg[r].kind = "replace"
    THEN \E row \in Replacements : row.id = st[r].replacement_id
    ELSE \E row \in MiningReports : row.preimage = st[r].preimage

\* C38: a /replace or /mining_report request answers once, and it answers
\* success, with the increment of the cached counters, only when its
\* transaction has committed; a commit that fails never yields "success".
C38_SuccessOnlyAfterCommit ==
    [][\A r \in Req :
        /\ (resp[r].status # "success" /\ resp'[r].status = "success") => Committed(r)
        /\ (num_replace' # num_replace /\ pc[r] # pc'[r]) => Committed(r)
        /\ (num_reports' # num_reports /\ pc[r] # pc'[r]) => Committed(r)
        /\ resp[r].status # "none" => resp'[r] = resp[r]]_allvars

\* a request answers at most once
AnswersOnce ==
    [][\A r \in Req : resp[r].status # "none" => resp'[r] = resp[r]]_allvars

\* two rows of MiningReports that follow one another in id order (the rows
\* loaded at the start that no request reads lie between the first row and
\* the last loaded one)
ConsecutiveReports(a, b) ==
    /\ a.id < b.id
    /\ ~\E c \in MiningReports : a.id < c.id /\ c.id < b.id
    /\ ~(a.id = 1 /\ hidden.reports > 0)

\* C39: the MiningReports table is a chain under any interleaving of
\* concurrent reports: of two consecutive rows the later one's difficulty is
\* the earlier one's next_difficulty, and its aggregate_work is the earlier
\* one's plus the work of its difficulty.
C39_ReportsFormChain ==
    \A a, b \in MiningReports :
        ConsecutiveReports(a, b) =>
            /\ b.difficulty = a.next_difficulty
            /\ b.aggregate_work = a.aggregate_work + Work(b.difficulty)

\* C40: a solution pushed at any moment, also between the worker's test for
\* an empty queue and its wait, where the notification is missed, is taken
\* from the queue when the timed wait returns: every pushed solution is
\* eventually submitted or written to the orphan log.
C40_PushedEventuallyDequeued ==
    \A id \in 1..MaxSolutions :
        (\E i \in DOMAIN g_solutions : g_solutions[i].id = id)
            ~> (id \in posted \/ \E s \in orphan_log : s.id = id)

\* a solution that was never posted is in the queue while the worker is on
\* its way into the wait: it was pushed after the test for an empty queue
C40_PushedWhileWaiting ==
    /\ upc = "wait"
    /\ g_solutions # <<>>
    /\ Head(g_solutions).id \notin posted

=============================================================================
